---- MODULE Spec2Model ----
(***************************************************************************)
(* HermesContext: the RAG engine (src/src/engine.py) over its storage      *)
(* (src/src/database.py), its query cache and its model collaborators.     *)
(*                                                                         *)
(* Texts are sequences of one-character strings.  Scores are exact         *)
(* rationals [n, d]; the weights 0.7 and 0.3 are kept in tenths.           *)
(* A call that raises is a result record with exc = TRUE.                  *)
(***************************************************************************)
EXTENDS Integers, Sequences, FiniteSets, TLC

(***************************************************************************)
(* Settings (src/src/config.py)                                            *)
(***************************************************************************)

\* chunk_size and chunk_overlap are counted in words; the model runs them
\* scaled down (512 and 64 in config.py) so that a document of a few words
\* is split into several chunks.
chunk_size == 3
chunk_overlap == 1
chunk_separators == << <<"\n", "\n">>, <<"\n">>, <<".", " ">>, <<",", " ">>, <<" ">> >>

\* retrieval_top_k is scaled down too (20 in config.py).
retrieval_top_k == 1
\* vector_weight = 0.7 and keyword_weight = 0.3, in tenths
vector_weight == 7
keyword_weight == 3
WeightScale == 10
rrf_k == 60
cache_ttl_seconds == 3600

\* the settings in force and, in the specifications of the pure functions,
\* the arguments of the function under check
VARIABLE input

\* rerank_top_k, the default of search's top_k
rerank_top_k == 5

\* Settings(vector_weight=..., keyword_weight=..., retrieval_top_k=...):
\* fields of the dataclass, 0.7, 0.3 and 20 unless a construction names
\* others
Settings(vw, kw, rtk) ==
    [vector_weight |-> vw, keyword_weight |-> kw, retrieval_top_k |-> rtk]

\* settings = Settings(), the instance the engine reads on every call
settings == input.settings

(***************************************************************************)
(* Bounds of the model                                                     *)
(***************************************************************************)
\* documents registered in one run of Spec, and of SpecStore
MaxDocs == 1
MaxStoreDocs == 2

None == "None"

(***************************************************************************)
(* str methods used by the chunker                                         *)
(***************************************************************************)

\* str.isspace for the characters of the model's alphabet
IsSpace(c) == c \in {" ", "\n", "\t"}

\* len(text.split()) and text.split(): split on runs of whitespace
RECURSIVE SplitWordsFrom(_, _)
SplitWordsFrom(text, cur) ==
    IF text = <<>>
    THEN IF cur = <<>> THEN <<>> ELSE <<cur>>
    ELSE IF IsSpace(Head(text))
         THEN (IF cur = <<>> THEN <<>> ELSE <<cur>>) \o SplitWordsFrom(Tail(text), <<>>)
         ELSE SplitWordsFrom(Tail(text), Append(cur, Head(text)))

split_words(text) == SplitWordsFrom(text, <<>>)

StartsWith(text, sep) ==
    Len(text) >= Len(sep) /\ SubSeq(text, 1, Len(sep)) = sep

\* text.split(sep): split on every non-overlapping occurrence, left to right
RECURSIVE SplitSepFrom(_, _, _)
SplitSepFrom(text, sep, cur) ==
    IF text = <<>>
    THEN <<cur>>
    ELSE IF StartsWith(text, sep)
         THEN <<cur>> \o SplitSepFrom(SubSeq(text, Len(sep) + 1, Len(text)), sep, <<>>)
         ELSE SplitSepFrom(Tail(text), sep, Append(cur, Head(text)))

split_sep(text, sep) == SplitSepFrom(text, sep, <<>>)

RECURSIVE LStrip(_)
LStrip(text) ==
    IF text # <<>> /\ IsSpace(Head(text)) THEN LStrip(Tail(text)) ELSE text

RECURSIVE RStrip(_)
RStrip(text) ==
    IF text # <<>> /\ IsSpace(text[Len(text)])
    THEN RStrip(SubSeq(text, 1, Len(text) - 1))
    ELSE text

\* text.strip()
strip(text) == RStrip(LStrip(text))

\* sep.join(parts)
RECURSIVE join(_, _)
join(sep, parts) ==
    IF parts = <<>> THEN <<>>
    ELSE IF Len(parts) = 1 THEN parts[1]
    ELSE parts[1] \o sep \o join(sep, Tail(parts))

\* " ".join(words[i : i + chunk_size]), i 0-based
WordWindow(words, i, size) ==
    join(<<" ">>, SubSeq(words, i + 1, IF i + size < Len(words) THEN i + size ELSE Len(words)))

(***************************************************************************)
(* RAGEngine._split_text                                                   *)
(***************************************************************************)

\* the first separator that splits the text in more than one part; 0 if none
RECURSIVE FirstSplitting(_, _, _)
FirstSplitting(text, separators, i) ==
    IF i > Len(separators) THEN 0
    ELSE IF Len(split_sep(text, separators[i])) > 1 THEN i
    ELSE FirstSplitting(text, separators, i + 1)

\* for i in range(0, len(words), step): parts.append(" ".join(words[i:i+chunk_size]))
RECURSIVE FallbackWindows(_, _, _, _)
FallbackWindows(words, i, size, step) ==
    IF i >= Len(words) THEN <<>>
    ELSE <<WordWindow(words, i, size)>> \o FallbackWindows(words, i + step, size, step)

\* [p.strip() for p in parts if p.strip()]
RECURSIVE StripNonEmpty(_)
StripNonEmpty(parts) ==
    IF parts = <<>> THEN <<>>
    ELSE (IF strip(parts[1]) # <<>> THEN <<strip(parts[1])>> ELSE <<>>)
         \o StripNonEmpty(Tail(parts))

\* the overlap walk: for p in reversed(current), from position i downward
RECURSIVE OverlapWalk(_, _, _, _)
OverlapWalk(current, i, overlap, acc) ==
    IF i = 0 THEN acc
    ELSE LET plen == Len(split_words(current[i]))
         IN IF acc.overlap_len + plen > overlap
            THEN acc
            ELSE OverlapWalk(current, i - 1, overlap,
                             [overlap_parts |-> <<current[i]>> \o acc.overlap_parts,
                              overlap_len   |-> acc.overlap_len + plen])

overlap_of_last_part(current, overlap) ==
    [overlap_parts |-> <<current[Len(current)]>>,
     overlap_len |-> Len(split_words(current[Len(current)]))]

overlap_of(current, overlap) ==
    OverlapWalk(current, Len(current), overlap, [overlap_parts |-> <<>>, overlap_len |-> 0])

\* chunks.append(chunk_text) if chunk_text is not empty
AppendChunk(chunks, sep, current) ==
    LET chunk_text == strip(join(sep, current))
    IN IF chunk_text # <<>> THEN Append(chunks, chunk_text) ELSE chunks

\* the loop "for part in parts" of the separator path, from part i on.
\* Besides the chunks it returns what "current" went through: segments, the
\* lists of parts closed (and the last one), and seeds, the overlap_parts
\* that each closing assigned to current.
RECURSIVE SplitLoop(_, _, _, _, _, _)
SplitLoop(parts, i, sep, size, overlap, st) ==
    IF i > Len(parts)
    THEN [chunks |-> IF st.current # <<>> THEN AppendChunk(st.chunks, sep, st.current)
                     ELSE st.chunks,
          segments |-> IF st.current # <<>> THEN Append(st.segments, st.current)
                       ELSE st.segments,
          seeds |-> st.seeds]
    ELSE LET part == parts[i]
             part_len == Len(split_words(part))
             closing == st.current_len + part_len > size /\ st.current # <<>>
             ov == overlap_of(st.current, overlap)
             chunks1 == IF closing THEN AppendChunk(st.chunks, sep, st.current) ELSE st.chunks
             current1 == IF closing THEN ov.overlap_parts ELSE st.current
             len1 == IF closing THEN ov.overlap_len ELSE st.current_len
         IN SplitLoop(parts, i + 1, sep, size, overlap,
                      [chunks |-> chunks1, current |-> Append(current1, part),
                       current_len |-> len1 + part_len,
                       segments |-> IF closing THEN Append(st.segments, st.current)
                                    ELSE st.segments,
                       seeds |-> IF closing THEN Append(st.seeds, ov.overlap_parts)
                                 ELSE st.seeds])

\* _split_text past the early return: the separator loop, or the fallback
\* when separator s is 0.  range() raises ValueError on a zero step and is
\* empty on a negative one.
SplitLong(text, size, overlap, separators, s) ==
    IF s = 0
    THEN IF size - overlap = 0
         THEN [exc |-> TRUE, chunks |-> <<>>, segments |-> <<>>, seeds |-> <<>>]
         ELSE IF size - overlap < 0
         THEN [exc |-> FALSE, chunks |-> <<>>, segments |-> <<>>, seeds |-> <<>>]
         ELSE [exc |-> FALSE,
               chunks |-> StripNonEmpty(
                   FallbackWindows(split_words(text), 0, size, size - overlap)),
               segments |-> <<>>, seeds |-> <<>>]
    ELSE [exc |-> FALSE]
         @@ SplitLoop(split_sep(text, separators[s]), 1, separators[s], size, overlap,
                      [chunks |-> <<>>, current |-> <<>>, current_len |-> 0,
                       segments |-> <<>>, seeds |-> <<>>])

_split_text_short_as_words(text, size, overlap, separators) ==
    IF Len(split_words(text)) <= size
    THEN [exc |-> FALSE, chunks |-> split_words(text), segments |-> <<>>, seeds |-> <<>>]
    ELSE SplitLong(text, size, overlap, separators, FirstSplitting(text, separators, 1))

\* _split_text(text, chunk_size, overlap, separators).  The result is
\* [exc, chunks, segments, seeds].
_split_text(text, size, overlap, separators) ==
    IF Len(split_words(text)) <= size
    THEN [exc |-> FALSE, chunks |-> IF strip(text) # <<>> THEN <<strip(text)>> ELSE <<>>,
          segments |-> <<>>, seeds |-> <<>>]
    ELSE SplitLong(text, size, overlap, separators, FirstSplitting(text, separators, 1))

(***************************************************************************)
(* Storage (src/src/database.py).  db = [documents, chunks, doc_seq,       *)
(* chunk_seq, held]: the two tables, the next value of their identity      *)
(* columns, and the number of connections of the pool that are acquired    *)
(* and not released.  A storage call returns [db, exc, ret].               *)
(***************************************************************************)

EmptyDb == [documents |-> {}, chunks |-> {}, doc_seq |-> 1, chunk_seq |-> 1, held |-> 0]

\* conn = self._pool.acquire()
pool_acquire(db) == [db EXCEPT !.held = @ + 1]

\* self._pool.release(conn)
pool_release(db) == [db EXCEPT !.held = @ - 1]

\* get_conn without the release of the finally clause when the body raises
get_conn_keeping_on_raise(before, body) ==
    IF body.exc
    THEN [db |-> pool_acquire(before), exc |-> TRUE, ret |-> None]
    ELSE [db |-> pool_release(pool_acquire(body.db)), exc |-> FALSE, ret |-> body.ret]

\* get_conn: commit when the body returns, rollback and re-raise when it
\* raises.  (Identity values drawn by a rolled-back insert were never seen
\* by anyone; the model hands them out again.)  The connection is acquired
\* before the body and released in the finally clause, after the commit or
\* the rollback.
get_conn(before, body) ==
    IF body.exc
    THEN [db |-> pool_release(pool_acquire(before)), exc |-> TRUE, ret |-> None]
    ELSE [db |-> pool_release(pool_acquire(body.db)), exc |-> FALSE, ret |-> body.ret]

\* insert_document: INSERT INTO documents ... RETURNING id
insert_document(db, fault) ==
    get_conn(db,
        IF fault
        THEN [db |-> db, exc |-> TRUE, ret |-> None]
        ELSE [db |-> [db EXCEPT !.documents = @ \cup {db.doc_seq},
                                !.doc_seq = @ + 1],
              exc |-> FALSE, ret |-> db.doc_seq])

delete_document_no_cascade(db, doc_id, fault) ==
    get_conn(db,
        IF fault
        THEN [db |-> db, exc |-> TRUE, ret |-> None]
        ELSE [db |-> [db EXCEPT !.documents = @ \ {doc_id}],
              exc |-> FALSE, ret |-> doc_id \in db.documents])

\* delete_document: DELETE FROM documents WHERE id = :id, with the chunks'
\* ON DELETE CASCADE; returns rowcount > 0
delete_document(db, doc_id, fault) ==
    get_conn(db,
        IF fault
        THEN [db |-> db, exc |-> TRUE, ret |-> None]
        ELSE [db |-> [db EXCEPT !.documents = @ \ {doc_id},
                                !.chunks = {c \in @ : c.document_id # doc_id}],
              exc |-> FALSE, ret |-> doc_id \in db.documents])

\* one cursor.execute of insert_chunks: raises on an injected fault, on a
\* missing parent document (foreign key) and on a repeated
\* (document_id, chunk_index) (uq_doc_chunk)
RECURSIVE InsertChunkRows(_, _, _, _, _)
InsertChunkRows(db, document_id, chunks, i, fail_at) ==
    IF i > Len(chunks)
    THEN [db |-> db, exc |-> FALSE, ret |-> Len(chunks)]
    ELSE IF \/ i = fail_at
            \/ document_id \notin db.documents
            \/ \E c \in db.chunks : /\ c.document_id = document_id
                                    /\ c.chunk_index = chunks[i].chunk_index
         THEN [db |-> db, exc |-> TRUE, ret |-> None]
         ELSE InsertChunkRows(
                  [db EXCEPT !.chunks = @ \cup {[id |-> db.chunk_seq,
                                                  document_id |-> document_id,
                                                  chunk_index |-> chunks[i].chunk_index,
                                                  token_count |-> chunks[i].token_count]},
                             !.chunk_seq = @ + 1],
                  document_id, chunks, i + 1, fail_at)

\* insert_chunks(document_id, chunks); fail_at = 0: no execute raises
insert_chunks(db, document_id, chunks, fail_at) ==
    get_conn(db, InsertChunkRows(db, document_id, chunks, 1, fail_at))

(***************************************************************************)
(* RAGEngine.ingest_document                                               *)
(***************************************************************************)

\* step 5: the chunk records, chunk_index = i of enumerate(raw_chunks)
chunk_records_shifted(raw_chunks) ==
    [i \in 1..Len(raw_chunks) |->
        [chunk_index |-> i, token_count |-> Len(split_words(raw_chunks[i]))]]

chunk_records(raw_chunks) ==
    [i \in 1..Len(raw_chunks) |->
        [chunk_index |-> i - 1, token_count |-> Len(split_words(raw_chunks[i]))]]

ingest_document_no_early_return(db, content, fault, fail_at) ==
    LET ins == insert_document(db, fault = "insert_document")
        split == _split_text(content, chunk_size, chunk_overlap, chunk_separators)
        stored == insert_chunks(ins.db, ins.ret, chunk_records(split.chunks),
                                IF fault = "insert_chunks" THEN fail_at ELSE 0)
    IN IF ins.exc \/ split.exc
       THEN [db |-> ins.db, exc |-> TRUE, ret |-> None, calls |-> {"insert_document"}]
       ELSE IF fault = "embed_texts"
       THEN [db |-> ins.db, exc |-> TRUE, ret |-> None,
             calls |-> {"insert_document", "embed_texts"}]
       ELSE [db |-> stored.db, exc |-> stored.exc,
             ret |-> IF stored.exc THEN None
                     ELSE [document_id |-> ins.ret, chunk_count |-> stored.ret],
             calls |-> {"insert_document", "embed_texts", "insert_chunks"}]

\* ingest_document(content) with the collaborators' faults: fault is the
\* stage that raises ("none" for a healthy run), fail_at the execute of
\* insert_chunks that raises.  Returns [db, exc, ret, calls].
ingest_document(db, content, fault, fail_at) ==
    LET ins == insert_document(db, fault = "insert_document")
        split == _split_text(content, chunk_size, chunk_overlap, chunk_separators)
        raw_chunks == split.chunks
        stored == insert_chunks(ins.db, ins.ret, chunk_records(raw_chunks),
                                IF fault = "insert_chunks" THEN fail_at ELSE 0)
    IN IF ins.exc
       THEN [db |-> ins.db, exc |-> TRUE, ret |-> None, calls |-> {"insert_document"}]
       ELSE IF split.exc
       THEN [db |-> ins.db, exc |-> TRUE, ret |-> None, calls |-> {"insert_document"}]
       ELSE IF raw_chunks = <<>>
       THEN [db |-> ins.db, exc |-> FALSE,
             ret |-> [document_id |-> ins.ret, chunk_count |-> 0],
             calls |-> {"insert_document"}]
       ELSE IF fault = "embed_texts"
       THEN [db |-> ins.db, exc |-> TRUE, ret |-> None,
             calls |-> {"insert_document", "embed_texts"}]
       ELSE [db |-> stored.db, exc |-> stored.exc,
             ret |-> IF stored.exc THEN None
                     ELSE [document_id |-> ins.ret, chunk_count |-> stored.ret],
             calls |-> {"insert_document", "embed_texts", "insert_chunks"}]

(***************************************************************************)
(* RAGEngine._reciprocal_rank_fusion                                       *)
(*                                                                         *)
(* A candidate is a dict, modelled as a record: chunk_id, document_id and  *)
(* signal (the search whose row it is: its text, title and score fields),  *)
(* later rrf_score and rerank_score.  A score of the fusion is the exact   *)
(* rational n / (WeightScale * d).                                         *)
(***************************************************************************)

\* seq[:n]
Take(seq, n) == SubSeq(seq, 1, IF n < Len(seq) THEN n ELSE Len(seq))

FracAdd(a, b) == [n |-> a.n * b.d + b.n * a.d, d |-> a.d * b.d]
FracGT(a, b) == a.n * b.d > b.n * a.d

\* weight / (k + rank + 1), rank 0-based
Contribution_rank_from_one(weight, k, rank) == [n |-> weight, d |-> k + rank]

Contribution(weight, k, rank) == [n |-> weight, d |-> k + rank + 1]

MicroPerUnit == 1000000

\* round(rrf_score, 6), in units of 10^-6.  The floats 0.7 and 0.3 lie below
\* 7/10 and 3/10, so a sum whose exact value ends in an exact half is
\* rounded down (as round() does for every pair of ranks 0..19).
Round6(x) ==
    LET num == x.n * (MicroPerUnit \div WeightScale)
    IN (2 * num + x.d - 1) \div (2 * x.d)

ScoreGet_default_only(acc, cid) == [n |-> 0, d |-> 1]

\* scores.get(cid, 0.0)
ScoreGet(acc, cid) ==
    IF cid \in DOMAIN acc.scores THEN acc.scores[cid] ELSE [n |-> 0, d |-> 1]

\* scores[cid] = value: a dict keeps the order of first insertion
ScorePut(acc, cid, value) ==
    [acc EXCEPT !.order = IF cid \in DOMAIN acc.scores THEN @ ELSE Append(@, cid),
                !.scores = (cid :> value) @@ @]

\* for rank, r in enumerate(vector_results)
RECURSIVE VectorPass(_, _, _, _)
VectorPass(vector_results, i, k, acc) ==
    IF i > Len(vector_results) THEN acc
    ELSE LET r == vector_results[i]
             cid == r.chunk_id
             put == ScorePut(acc, cid,
                        FracAdd(ScoreGet(acc, cid), Contribution(settings.vector_weight, k, i - 1)))
         IN VectorPass(vector_results, i + 1, k,
                       [put EXCEPT !.chunk_map = (cid :> r) @@ @])

\* for rank, r in enumerate(keyword_results)
RECURSIVE KeywordPass(_, _, _, _)
KeywordPass(keyword_results, i, k, acc) ==
    IF i > Len(keyword_results) THEN acc
    ELSE LET r == keyword_results[i]
             cid == r.chunk_id
             put == ScorePut(acc, cid,
                        FracAdd(ScoreGet(acc, cid), Contribution(settings.keyword_weight, k, i - 1)))
         IN KeywordPass(keyword_results, i + 1, k,
                        [put EXCEPT !.chunk_map =
                            IF cid \in DOMAIN @ THEN @ ELSE (cid :> r) @@ @])

\* the two passes: [order, scores, chunk_map]
rrf_scores(vector_results, keyword_results, k) ==
    KeywordPass(keyword_results, 1, k,
        VectorPass(vector_results, 1, k,
            [order |-> <<>>, scores |-> <<>>, chunk_map |-> <<>>]))

\* sorted(..., reverse=True) is stable: an item goes after every item whose
\* key is greater than or equal to its own
RECURSIVE InsertDesc_before_equal(_, _, _)
InsertDesc_before_equal(sorted, cid, scores) ==
    IF sorted = <<>> THEN <<cid>>
    ELSE IF ~FracGT(scores[Head(sorted)], scores[cid])
         THEN <<cid>> \o sorted
         ELSE <<Head(sorted)>> \o InsertDesc_before_equal(Tail(sorted), cid, scores)

RECURSIVE InsertDesc(_, _, _)
InsertDesc(sorted, cid, scores) ==
    IF sorted = <<>> THEN <<cid>>
    ELSE IF FracGT(scores[cid], scores[Head(sorted)])
         THEN <<cid>> \o sorted
         ELSE <<Head(sorted)>> \o InsertDesc(Tail(sorted), cid, scores)

RECURSIVE SortedDesc(_, _, _)
SortedDesc(order, scores, sorted) ==
    IF order = <<>> THEN sorted
    ELSE SortedDesc(Tail(order), scores, InsertDesc(sorted, Head(order), scores))

\* item = chunk_map[cid].copy(); item["rrf_score"] = round(rrf_score, 6)
WithRrfScore(item, score) ==
    [key \in DOMAIN item \cup {"rrf_score"} |->
        IF key = "rrf_score" THEN Round6(score) ELSE item[key]]

\* the list comprehension over ranked, the sorted ids
FusedItems(acc, ranked) ==
    [i \in 1..Len(ranked) |->
        WithRrfScore(acc.chunk_map[ranked[i]], acc.scores[ranked[i]])]

\* ranked = sorted(scores.items(), key=score, reverse=True)
RankedItems(acc) == FusedItems(acc, SortedDesc(acc.order, acc.scores, <<>>))

_reciprocal_rank_fusion_truncated(vector_results, keyword_results, k) ==
    Take(RankedItems(rrf_scores(vector_results, keyword_results, k)),
         settings.retrieval_top_k)

_reciprocal_rank_fusion(vector_results, keyword_results, k) ==
    RankedItems(rrf_scores(vector_results, keyword_results, k))

(***************************************************************************)
(* RAGEngine._rerank                                                       *)
(***************************************************************************)

\* round(float(s), 4) of a model score given in units of 10^-5, in units
\* of 10^-4 (the scores the model draws do not end in an exact half)
Round4(raw) == (raw + 5) \div 10

\* c["rerank_score"] = round(float(s), 4)
WithRerankScore(c, raw) ==
    [key \in DOMAIN c \cup {"rerank_score"} |->
        IF key = "rerank_score" THEN Round4(raw) ELSE c[key]]

\* candidates.sort(key=rerank_score, reverse=True): stable
RECURSIVE InsertByRerank_before_equal(_, _)
InsertByRerank_before_equal(sorted, c) ==
    IF sorted = <<>> THEN <<c>>
    ELSE IF c.rerank_score >= Head(sorted).rerank_score
         THEN <<c>> \o sorted
         ELSE <<Head(sorted)>> \o InsertByRerank_before_equal(Tail(sorted), c)

RECURSIVE InsertByRerank(_, _)
InsertByRerank(sorted, c) ==
    IF sorted = <<>> THEN <<c>>
    ELSE IF c.rerank_score > Head(sorted).rerank_score
         THEN <<c>> \o sorted
         ELSE <<Head(sorted)>> \o InsertByRerank(Tail(sorted), c)

RECURSIVE SortByRerank(_, _)
SortByRerank(candidates, sorted) ==
    IF candidates = <<>> THEN sorted
    ELSE SortByRerank(Tail(candidates), InsertByRerank(sorted, Head(candidates)))

_rerank_scoring_nothing(candidates, top_k, predict, fault) ==
    IF fault
    THEN [exc |-> TRUE, ret |-> <<>>, called |-> TRUE]
    ELSE LET scored == [i \in 1..Len(candidates) |->
                            WithRerankScore(candidates[i], predict[i])]
         IN [exc |-> FALSE, ret |-> Take(SortByRerank(scored, <<>>), top_k),
             called |-> TRUE]

\* _rerank(query, candidates, top_k): predict is the reranker's scores of
\* the pairs, in order; fault: the reranker raises.
\* Returns [exc, ret, called]; called: the model was invoked.
_rerank(candidates, top_k, predict, fault) ==
    IF candidates = <<>>
    THEN [exc |-> FALSE, ret |-> <<>>, called |-> FALSE]
    ELSE IF fault
    THEN [exc |-> TRUE, ret |-> <<>>, called |-> TRUE]
    ELSE LET scored == [i \in 1..Len(candidates) |->
                            WithRerankScore(candidates[i], predict[i])]
         IN [exc |-> FALSE, ret |-> Take(SortByRerank(scored, <<>>), top_k),
             called |-> TRUE]

(***************************************************************************)
(* json.dumps / json.loads of a search response.  A JSON text is a         *)
(* sequence of tokens [t, v]: punctuation "p", string "s", number "n",     *)
(* boolean "b".                                                            *)
(***************************************************************************)

Punct(x) == [t |-> "p", v |-> x]
JStr(x) == [t |-> "s", v |-> x]
JNum(x) == [t |-> "n", v |-> x]
JBool(x) == [t |-> "b", v |-> x]

\* the keys a candidate dict can carry, in insertion order, with their JSON type
CandidateKeys == <<"chunk_id", "document_id", "signal", "rrf_score", "rerank_score">>
IsStrKey(key) == key = "signal"

RECURSIVE DumpMembers(_, _, _)
DumpMembers(c, keys, i) ==
    IF i > Len(keys) THEN <<>>
    ELSE (IF keys[i] \in DOMAIN c
          THEN <<JStr(keys[i]),
                 IF IsStrKey(keys[i]) THEN JStr(c[keys[i]]) ELSE JNum(c[keys[i]])>>
          ELSE <<>>)
         \o DumpMembers(c, keys, i + 1)

DumpCandidate(c) == <<Punct("{")>> \o DumpMembers(c, CandidateKeys, 1) \o <<Punct("}")>>

RECURSIVE DumpCandidates(_)
DumpCandidates(results) ==
    IF results = <<>> THEN <<>>
    ELSE DumpCandidate(Head(results)) \o DumpCandidates(Tail(results))

\* json.dumps(response, ensure_ascii=False)
json_dumps(response) ==
    <<Punct("{"), JStr("query"), JStr(response.query),
      JStr("results"), Punct("[")>>
    \o DumpCandidates(response.results)
    \o <<Punct("]"),
         JStr("total_candidates"), JNum(response.total_candidates),
         JStr("cached"), JBool(response.cached),
         Punct("}")>>

IsPunct(tok, x) == tok.t = "p" /\ tok.v = x

\* json.loads: a recursive-descent parse, [v, next]
RECURSIVE ParseValue(_, _)
RECURSIVE ParseMembers(_, _, _)
RECURSIVE ParseElements(_, _, _)

ParseValue(toks, pos) ==
    IF IsPunct(toks[pos], "{") THEN ParseMembers(toks, pos + 1, <<>>)
    ELSE IF IsPunct(toks[pos], "[") THEN ParseElements(toks, pos + 1, <<>>)
    ELSE [v |-> toks[pos].v, next |-> pos + 1]

ParseMembers(toks, pos, obj) ==
    IF IsPunct(toks[pos], "}") THEN [v |-> obj, next |-> pos + 1]
    ELSE LET val == ParseValue(toks, pos + 1)
         IN ParseMembers(toks, val.next, (toks[pos].v :> val.v) @@ obj)

ParseElements(toks, pos, list) ==
    IF IsPunct(toks[pos], "]") THEN [v |-> list, next |-> pos + 1]
    ELSE LET val == ParseValue(toks, pos)
         IN ParseElements(toks, val.next, Append(list, val.v))

json_loads(toks) == ParseValue(toks, 1).v

(***************************************************************************)
(* The query cache: _cache_key, _check_cache, _set_cache.                  *)
(* cache is the Redis keyspace: key -> [value, ttl], ttl the seconds left. *)
(***************************************************************************)

Queries == {"q1", "q2"}

\* the query of the searches of Spec
SearchQueries == {"q1"}

\* hashlib.sha256(query.encode()).hexdigest()[:16]: an opaque digest,
\* distinct for the distinct queries of the model
sha256_hex16(query) == <<"sha256", query>>

_cache_key_one_for_all(query) == <<"rag:cache:">>

_cache_key(query) == <<"rag:cache:">> \o sha256_hex16(query)

\* _check_cache without its except clause
_check_cache_raising(cache, query, up) ==
    IF up /\ _cache_key(query) \in DOMAIN cache
    THEN [exc |-> FALSE, hit |-> TRUE, value |-> json_loads(cache[_cache_key(query)].value)]
    ELSE [exc |-> ~up, hit |-> FALSE, value |-> <<>>]

\* _check_cache(query); up = FALSE: cache.get raises, and the except clause
\* swallows it.  [exc, hit, value]: value is the dict returned, hit = FALSE
\* stands for None.
_check_cache(cache, query, up) ==
    LET key == _cache_key(query)
    IN IF up /\ key \in DOMAIN cache
       THEN [exc |-> FALSE, hit |-> TRUE, value |-> json_loads(cache[key].value)]
       ELSE [exc |-> FALSE, hit |-> FALSE, value |-> <<>>]

\* _set_cache giving setex the time-to-live in milliseconds
_set_cache_milliseconds(cache, query, result, up) ==
    IF up
    THEN [exc |-> FALSE,
          cache |-> (_cache_key(query) :> [value |-> json_dumps(result),
                                           ttl |-> 1000 * cache_ttl_seconds]) @@ cache]
    ELSE [exc |-> FALSE, cache |-> cache]

\* _set_cache(query, result); up = FALSE: cache.setex raises, and the except
\* clause swallows it.  [exc, cache]
_set_cache(cache, query, result, up) ==
    LET key == _cache_key(query)
    IN IF up
       THEN [exc |-> FALSE,
             cache |-> (key :> [value |-> json_dumps(result),
                                ttl |-> cache_ttl_seconds]) @@ cache]
       ELSE [exc |-> FALSE, cache |-> cache]

(***************************************************************************)
(* Database.vector_search / keyword_search.  The order of the rows is the  *)
(* storage's own (distance, text score): the environment gives it as a     *)
(* ranking, a sequence of chunk ids.                                       *)
(***************************************************************************)

\* FROM chunks c JOIN documents d ON c.document_id = d.id
Joined(db) == {c \in db.chunks : c.document_id \in db.documents}

ChunkById(db, id) == CHOOSE c \in db.chunks : c.id = id

\* one row of the result list
Row(c, signal) == [chunk_id |-> c.id, document_id |-> c.document_id, signal |-> signal]

RowsOf(db, ranking, signal) ==
    [i \in 1..Len(ranking) |-> Row(ChunkById(db, ranking[i]), signal)]

\* ... ORDER BY VECTOR_DISTANCE FETCH APPROXIMATE FIRST :topk ROWS ONLY
vector_search(db, ranking, top_k, fault) ==
    get_conn(db,
        IF fault THEN [db |-> db, exc |-> TRUE, ret |-> None]
        ELSE [db |-> db, exc |-> FALSE, ret |-> Take(RowsOf(db, ranking, "vector"), top_k)])

\* ... WHERE CONTAINS(...) > 0 ORDER BY SCORE(1) DESC FETCH FIRST :topk ROWS ONLY
keyword_search(db, ranking, top_k, fault) ==
    get_conn(db,
        IF fault THEN [db |-> db, exc |-> TRUE, ret |-> None]
        ELSE [db |-> db, exc |-> FALSE, ret |-> Take(RowsOf(db, ranking, "keyword"), top_k)])

(***************************************************************************)
(* RAGEngine.search.  env is what the collaborators do in this call:       *)
(* cache_read_up, cache_write_up (FALSE: the cache backend raises),        *)
(* fault (the collaborator that raises when called, or "none"),            *)
(* vector_ranking, keyword_ranking, rerank_scores.                         *)
(* elapsed_ms, a time measurement, is left out of the response.            *)
(***************************************************************************)

SearchRaise(cache, calls) == [cache |-> cache, exc |-> TRUE, ret |-> None, calls |-> calls]

\* steps 2 to 6 of search: embed, the two searches, fusion, reranking, and
\* the response dict.  Returns [exc, ret, calls].
\* step 5 and the response dict, with a reranker failure answered by the
\* fused order
search_rerank_fallback(query, top_k, reranking, fused, reranked) ==
    [exc |-> FALSE,
     ret |-> [query |-> query,
              results |-> IF reranking /\ ~reranked.exc
                          THEN reranked.ret ELSE Take(fused, top_k),
              total_candidates |-> Len(fused), cached |-> FALSE],
     calls |-> {"embed_query", "vector_search", "keyword_search"}
               \cup (IF reranking THEN {"rerank"} ELSE {})]

\* step 5 returning the fused list whole
search_rerank_untruncated(query, top_k, reranking, fused, reranked) ==
    IF reranking /\ reranked.exc
    THEN [exc |-> TRUE, ret |-> None,
          calls |-> {"embed_query", "vector_search", "keyword_search", "rerank"}]
    ELSE [exc |-> FALSE,
          ret |-> [query |-> query,
                   results |-> IF reranking THEN reranked.ret ELSE fused,
                   total_candidates |-> Len(fused), cached |-> FALSE],
          calls |-> {"embed_query", "vector_search", "keyword_search"}
                    \cup (IF reranking THEN {"rerank"} ELSE {})]

\* step 5 and the response dict: "if use_reranker and fused" the results are
\* those of _rerank (reranked), else fused[:top_k]
search_rerank(query, top_k, reranking, fused, reranked) ==
    IF reranking /\ reranked.exc
    THEN [exc |-> TRUE, ret |-> None,
          calls |-> {"embed_query", "vector_search", "keyword_search", "rerank"}]
    ELSE [exc |-> FALSE,
          ret |-> [query |-> query,
                   results |-> IF reranking THEN reranked.ret ELSE Take(fused, top_k),
                   total_candidates |-> Len(fused), cached |-> FALSE],
          calls |-> {"embed_query", "vector_search", "keyword_search"}
                    \cup (IF reranking THEN {"rerank"} ELSE {})]

search_fused_reranking_all(query, top_k, use_reranker, env, fused) ==
    search_rerank(query, top_k, use_reranker /\ fused # <<>>, fused,
                  _rerank(fused, top_k, env.rerank_scores, env.fault = "rerank"))

\* from the fused list on
search_fused(query, top_k, use_reranker, env, fused) ==
    search_rerank(query, top_k, use_reranker /\ fused # <<>>, fused,
                  _rerank(Take(fused, settings.retrieval_top_k), top_k, env.rerank_scores,
                          env.fault = "rerank"))

\* from the results of the two searches on
search_retrieved(query, top_k, use_reranker, env, vector_results, keyword_results) ==
    IF env.fault = "embed_query"
    THEN [exc |-> TRUE, ret |-> None, calls |-> {"embed_query"}]
    ELSE IF vector_results.exc
    THEN [exc |-> TRUE, ret |-> None, calls |-> {"embed_query", "vector_search"}]
    ELSE IF keyword_results.exc
    THEN [exc |-> TRUE, ret |-> None,
          calls |-> {"embed_query", "vector_search", "keyword_search"}]
    ELSE search_fused(query, top_k, use_reranker, env,
             _reciprocal_rank_fusion(vector_results.ret, keyword_results.ret, rrf_k))

search_compute(db, query, top_k, use_reranker, env) ==
    search_retrieved(query, top_k, use_reranker, env,
        vector_search(db, env.vector_ranking, settings.retrieval_top_k,
                      env.fault = "vector_search"),
        keyword_search(db, env.keyword_ranking, settings.retrieval_top_k,
                       env.fault = "keyword_search"))

\* the end of search: "if use_cache and results: self._set_cache(query, response)"
search_store(cache, query, use_cache, response, up) ==
    IF use_cache /\ response.results # <<>>
    THEN [exc |-> _set_cache(cache, query, response, up).exc,
          cache |-> _set_cache(cache, query, response, up).cache,
          calls |-> {"cache.setex"}]
    ELSE [exc |-> FALSE, cache |-> cache, calls |-> {}]

\* search(query, top_k, use_cache, use_reranker): [cache, exc, ret, calls]
\* step 7 and the return, from the computed response on
search_stored(cache, read, computed, store) ==
    IF computed.exc
    THEN SearchRaise(cache, read \cup computed.calls)
    ELSE IF store.exc
    THEN SearchRaise(store.cache, read \cup computed.calls \cup store.calls)
    ELSE [cache |-> store.cache, exc |-> FALSE, ret |-> computed.ret,
          calls |-> read \cup computed.calls \cup store.calls]

\* step 1 returning the stored response as it is
search_checked_unmarked(cache, query, use_cache, up, read, cached, computed) ==
    IF cached.exc
    THEN SearchRaise(cache, read)
    ELSE IF cached.hit
    THEN [cache |-> cache, exc |-> FALSE, ret |-> cached.value, calls |-> read]
    ELSE search_stored(cache, read, computed,
                       search_store(cache, query, use_cache, computed.ret, up))

\* step 1: "if cached: cached['cached'] = True; return cached", else the rest
search_checked(cache, query, use_cache, up, read, cached, computed) ==
    IF cached.exc
    THEN SearchRaise(cache, read)
    ELSE IF cached.hit
    THEN [cache |-> cache, exc |-> FALSE,
          ret |-> [cached.value EXCEPT !.cached = TRUE], calls |-> read]
    ELSE search_stored(cache, read, computed,
                       search_store(cache, query, use_cache, computed.ret, up))

search_reading_anyway(db, cache, query, top_k, use_cache, use_reranker, env) ==
    search_checked(cache, query, use_cache, env.cache_write_up,
        {"cache.get"}, _check_cache(cache, query, env.cache_read_up),
        search_compute(db, query, top_k, use_reranker, env))

search(db, cache, query, top_k, use_cache, use_reranker, env) ==
    search_checked(cache, query, use_cache, env.cache_write_up,
        IF use_cache THEN {"cache.get"} ELSE {},
        IF use_cache
        THEN _check_cache(cache, query, env.cache_read_up)
        ELSE [exc |-> FALSE, hit |-> FALSE, value |-> <<>>],
        search_compute(db, query, top_k, use_reranker, env))

(***************************************************************************)
(* The state machine.                                                      *)
(*   db        the storage                                                 *)
(*   cache     the cache backend's keyspace                                *)
(*   ret       the last call: its arguments, what its collaborators did,   *)
(*             whether it raised (exc) and what it returned (value)        *)
(*   completed history: the ids of the documents whose ingestion returned  *)
(*   stored    history: per query, the response of the last setex that     *)
(*             reached the backend and the seconds elapsed since (capped   *)
(*             at the time-to-live)                                        *)
(*   inflight  the calls in progress, in the specification of concurrent   *)
(*             callers: per caller, its position in search or in           *)
(*             ingest_document and its local variables                     *)
(***************************************************************************)
VARIABLES db, cache, ret, completed, stored, inflight

vars == <<db, cache, ret, completed, stored, input, inflight>>

\* the documents ingested: a short one and one of several chunks.  Each has
\* the 10 characters that the tool rag_ingest_document requires of a content
\* (IngestInput.content, min_length=10), and is not blank (ingest_file.py
\* passes no blank content on).
Contents ==
    { <<"a", "a", "a", "a", " ", "b", "b", "b", "b", "b">>,
      <<"a", "a", " ", "b", "b", " ", "c", "c", " ", "d", " ", "e">> }

MaxTopK == 2
TopKs == 1..MaxTopK

\* the raw scores of the reranking model, in units of 10^-5
RerankRaw == {4, 6}

\* the steps of the clock, in seconds
TimeSteps == {cache_ttl_seconds \div 2, cache_ttl_seconds}

Injective(seq) == \A i, j \in 1..Len(seq) : i # j => seq[i] # seq[j]

\* the rankings a keyword search can produce: distinct rows of the join, at
\* most n of them (the rows that match the query, by text score)
Rankings(d, n) ==
    LET ids == {c.id : c \in Joined(d)}
    IN {r \in UNION {[1..m -> ids] : m \in 0..n} : Injective(r)}

Min(a, b) == IF a < b THEN a ELSE b

\* the rankings a vector search can produce: every row has a distance, so
\* the n nearest rows, or all of them when there are fewer
NearestRankings(d, n) ==
    {r \in Rankings(d, n) : Len(r) = Min(n, Cardinality(Joined(d)))}

\* no call is in progress: the caller has taken the last result
Idle == ret.op = "none"

Init ==
    /\ db = EmptyDb
    /\ cache = <<>>
    /\ ret = [op |-> "none"]
    /\ completed = {}
    /\ stored = <<>>
    /\ input = [settings |-> Settings(vector_weight, keyword_weight, retrieval_top_k)]
    /\ inflight = <<>>

\* What a failing collaborator call raises: the collaborator's own exception
\* object (the storage driver's error for insert_document and insert_chunks,
\* the embedding library's error for embed_texts).
CollaboratorError(fault) ==
    [kind |-> "collaborator",
     collaborator |-> IF fault = "embed_texts" THEN "embedder" ELSE "database",
     call |-> fault]

\* What ingest_document and rag_ingest_document make of it: neither has an
\* except clause, the object raised inside leaves them as it is.
ingest_raised(exc, fault) == IF exc THEN CollaboratorError(fault) ELSE None

\* ingest_document(title, content, ...)
Ingest(content, fault, fail_at) ==
    /\ Idle
    /\ LET r == ingest_document(db, content, fault, fail_at)
       IN /\ db' = r.db
          /\ ret' = [op |-> "ingest", content |-> content, fault |-> fault,
                     fail_at |-> fail_at,
                     exc |-> r.exc, value |-> r.ret, calls |-> r.calls,
                     raised |-> ingest_raised(r.exc, fault),
                     doc_id |-> db.doc_seq]
          /\ completed' = IF r.exc THEN completed ELSE completed \cup {r.ret.document_id}
    /\ UNCHANGED <<cache, stored, input, inflight>>

\* at most limit documents are registered in one run
IngestAny(limit) ==
    /\ db.doc_seq <= limit
    /\ \E content \in Contents :
        \/ \E fault \in {"none", "insert_document", "embed_texts"} :
              Ingest(content, fault, 0)
        \/ \E fail_at \in 1..Len(_split_text(content, chunk_size, chunk_overlap,
                                             chunk_separators).chunks) :
              Ingest(content, "insert_chunks", fail_at)

\* delete_document(doc_id)
Delete(doc_id, fault) ==
    /\ Idle
    /\ LET r == delete_document(db, doc_id, fault)
       IN /\ db' = r.db
          /\ ret' = [op |-> "delete", doc_id |-> doc_id, exc |-> r.exc, value |-> r.ret]
    /\ UNCHANGED <<cache, completed, stored, input, inflight>>

DeleteAny == \E doc_id \in 1..MaxStoreDocs, fault \in BOOLEAN : Delete(doc_id, fault)

\* search(query, top_k, use_cache, use_reranker)
\* what the call's cache.get did
CacheRead(query, use_cache, env) ==
    IF ~use_cache THEN "skipped"
    ELSE IF ~env.cache_read_up THEN "error"
    ELSE IF _cache_key(query) \in DOMAIN cache THEN "hit" ELSE "miss"

\* what the call's cache.setex did
CacheWrite(calls, env) ==
    IF "cache.setex" \notin calls THEN "skipped"
    ELSE IF env.cache_write_up THEN "ok" ELSE "error"

\* the call has run: r is its outcome, bypass the outcome of the same call
\* with use_cache = False
SearchDone(query, top_k, use_cache, use_reranker, env, cache_read, cache_write, r, bypass) ==
    /\ cache' = r.cache
    /\ ret' = [op |-> "search", query |-> query, top_k |-> top_k,
               use_cache |-> use_cache, use_reranker |-> use_reranker,
               cache_read |-> cache_read, cache_write |-> cache_write,
               raised_by |-> IF env.fault \in r.calls THEN env.fault ELSE "none",
               exc |-> r.exc, value |-> r.ret, calls |-> r.calls,
               bypass |-> IF cache_read = "error" \/ cache_write = "error"
                          THEN [exc |-> bypass.exc, value |-> bypass.ret]
                          ELSE None]
    /\ stored' = IF cache_write = "ok"
                 THEN (query :> [response |-> r.ret, age |-> 0]) @@ stored
                 ELSE stored

\* search(query, top_k, use_cache, use_reranker)
Search(query, top_k, use_cache, use_reranker, env) ==
    /\ Idle
    /\ \E r \in {search(db, cache, query, top_k, use_cache, use_reranker, env)} :
          SearchDone(query, top_k, use_cache, use_reranker, env,
                     CacheRead(query, use_cache, env), CacheWrite(r.calls, env), r,
                     search(db, cache, query, top_k, FALSE, use_reranker, env))
    /\ UNCHANGED <<db, completed, input, inflight>>

\* What the collaborators can do in one call.  A collaborator that the call
\* does not reach is given one fixed value: on a hit nothing is called, after
\* the collaborator that raises nothing is called, rerank_scores are read
\* only by a healthy reranker.
NoScores == [i \in 1..settings.retrieval_top_k |-> 4]

Env(cr, cw, f, vr, kr, rs) ==
    [cache_read_up |-> cr, cache_write_up |-> cw, fault |-> f,
     vector_ranking |-> vr, keyword_ranking |-> kr, rerank_scores |-> rs]

\* the cache answers: the entry is there
SearchHit(query, top_k, use_reranker) ==
    /\ _cache_key(query) \in DOMAIN cache
    /\ Search(query, top_k, TRUE, use_reranker, Env(TRUE, TRUE, "none", <<>>, <<>>, NoScores))

\* the cache is bypassed, misses or cannot be read; a collaborator raises
SearchFails(query, top_k, use_cache, use_reranker, cr) ==
    \/ \E f \in {"embed_query", "vector_search"} :
          Search(query, top_k, use_cache, use_reranker, Env(cr, TRUE, f, <<>>, <<>>, NoScores))
    \/ \E vr \in NearestRankings(db, settings.retrieval_top_k) :
          Search(query, top_k, use_cache, use_reranker,
                 Env(cr, TRUE, "keyword_search", vr, <<>>, NoScores))
    \/ /\ use_reranker
       /\ \E vr \in NearestRankings(db, settings.retrieval_top_k),
             kr \in Rankings(db, settings.retrieval_top_k) :
             Search(query, top_k, use_cache, use_reranker,
                    Env(cr, TRUE, "rerank", vr, kr, NoScores))

\* the cache is bypassed, misses or cannot be read; the collaborators answer
SearchComputes(query, top_k, use_cache, use_reranker, cr) ==
    \E vr \in NearestRankings(db, settings.retrieval_top_k),
       kr \in Rankings(db, settings.retrieval_top_k),
       rs \in IF use_reranker THEN [1..settings.retrieval_top_k -> RerankRaw] ELSE {NoScores},
       cw \in IF use_cache THEN BOOLEAN ELSE {TRUE} :
          Search(query, top_k, use_cache, use_reranker, Env(cr, cw, "none", vr, kr, rs))

SearchAny ==
    \E query \in SearchQueries, top_k \in TopKs, use_reranker \in BOOLEAN :
        \/ SearchHit(query, top_k, use_reranker)
        \/ \E use_cache \in BOOLEAN :
             \E cr \in IF ~use_cache THEN {TRUE}
                       ELSE IF _cache_key(query) \in DOMAIN cache THEN {FALSE}
                       ELSE BOOLEAN :
                \/ SearchFails(query, top_k, use_cache, use_reranker, cr)
                \/ SearchComputes(query, top_k, use_cache, use_reranker, cr)

\* the caller takes the result of the call
Return ==
    /\ ~Idle
    /\ ret' = [op |-> "none"]
    /\ UNCHANGED <<db, cache, completed, stored, input, inflight>>

\* d seconds pass: the backend drops the entries whose time-to-live is over
Tick(d) ==
    /\ Idle
    /\ cache # <<>>
    /\ cache' = [key \in {k \in DOMAIN cache : cache[k].ttl > d} |->
                    [cache[key] EXCEPT !.ttl = @ - d]]
    /\ stored' = [q \in DOMAIN stored |->
                    [stored[q] EXCEPT !.age = IF @ + d < cache_ttl_seconds
                                              THEN @ + d ELSE cache_ttl_seconds]]
    /\ UNCHANGED <<db, ret, completed, input, inflight>>

TickAny == \E d \in TimeSteps : Tick(d)

Next == IngestAny(MaxDocs) \/ DeleteAny \/ SearchAny \/ TickAny \/ Return

Spec == Init /\ [][Next]_vars

\* the next call search(query, top_k, use_cache=True) made in this state,
\* with the cache backend and the collaborators healthy
NextSearch(query, top_k, vector_ranking) ==
    search(db, cache, query, top_k, TRUE, FALSE,
           Env(TRUE, TRUE, "none", vector_ranking, <<>>, NoScores))

\* C3 as stated: after a search with use_cache=true that returned, the cache
\* backend reachable, a second search for the same query returns
\* cached=true and the results of the first, and calls no collaborator.
C3_SecondCallIsCached ==
    (/\ ret.op = "search" /\ ret.use_cache /\ ~ret.exc
     /\ ret.cache_read \in {"hit", "miss"} /\ ret.cache_write # "error") =>
        \A top_k \in TopKs, vr \in NearestRankings(db, settings.retrieval_top_k) :
            /\ ~NextSearch(ret.query, top_k, vr).exc
            /\ NextSearch(ret.query, top_k, vr).ret.cached
            /\ NextSearch(ret.query, top_k, vr).ret.results = ret.value.results
            /\ NextSearch(ret.query, top_k, vr).calls = {"cache.get"}

\* C3, amended: while the response that a search stored for a query is younger
\* than the time-to-live, every search for that query with use_cache=true
\* that can read the cache returns cached=true with the results stored, and
\* calls neither the embedding, nor a search of the storage, nor the reranker.
\* A search with use_cache=true that missed and returned zero results leaves
\* the cache as it was, and the next search for the query recomputes.
C3_StoredResponseIsServed ==
    [][/\ (/\ ret.op = "none" /\ ret'.op = "search" /\ ret'.use_cache
           /\ ret'.cache_read # "error"
           /\ ret'.query \in DOMAIN stored
           /\ stored[ret'.query].age < cache_ttl_seconds) =>
              /\ ~ret'.exc
              /\ ret'.value.cached
              /\ ret'.value.results = stored[ret'.query].response.results
              /\ ret'.value.results # <<>>
              /\ ret'.calls = {"cache.get"}
              /\ cache' = cache
       /\ (/\ ret.op = "none" /\ ret'.op = "search" /\ ret'.use_cache
           /\ ret'.cache_read = "miss"
           /\ ~ret'.exc /\ ret'.value.results = <<>>) =>
              /\ ret'.cache_write = "skipped"
              /\ cache' = cache
              /\ \A top_k \in TopKs :
                    \A vr \in NearestRankings(db, settings.retrieval_top_k)' :
                        /\ ~NextSearch(ret.query, top_k, vr).ret.cached'
                        /\ "embed_query" \in NextSearch(ret.query, top_k, vr).calls']_vars

\* a search is answered from an entry stored half a time-to-live ago, after
\* the documents it lists were deleted
C3_Witness ==
    /\ ret.op = "search" /\ ret.cache_read = "hit" /\ ret.value.cached
    /\ stored[ret.query].age > 0
    /\ db.chunks = {}

\* C4: a search with use_cache=true whose cache read, cache write or both
\* raise ends as the same call with the cache bypassed ends: it raises only
\* if a collaborator does, and otherwise returns the same response, cached=false.
C4_CacheFailureNotFatal ==
    (/\ ret.op = "search" /\ ret.use_cache
     /\ (ret.cache_read = "error" \/ ret.cache_write = "error")) =>
        /\ ret.exc = ret.bypass.exc
        /\ ret.value = ret.bypass.value
        /\ ret.raised_by = "none" => (~ret.exc /\ ~ret.value.cached)

\* the read and the write both raised, and the search returned its results
C4_Witness ==
    /\ ret.op = "search" /\ ret.use_cache
    /\ ret.cache_read = "error" /\ ret.cache_write = "error"
    /\ ~ret.exc /\ ret.value.results # <<>>

\* C6: a search never stores a response whose result list is empty: after a
\* search that returned zero results the call has written no entry, and the
\* next search for the query recomputes and returns cached=false.
C6_NextSearchRecomputes ==
    (ret.op = "search" /\ ~ret.exc /\ ret.value.results = <<>>) =>
        /\ ret.cache_write = "skipped"
        /\ \A top_k \in TopKs, vr \in NearestRankings(db, settings.retrieval_top_k) :
              /\ ~NextSearch(ret.query, top_k, vr).ret.cached
              /\ "embed_query" \in NextSearch(ret.query, top_k, vr).calls

\* C8: a search in which the query embedding, the vector search, the
\* keyword search or the reranker raises, raises to its caller, returns no
\* response and leaves the cache as it was.
C8_CollaboratorFailureFatal ==
    [][(ret.op = "none" /\ ret'.op = "search" /\ ret'.raised_by # "none") =>
          /\ ret'.exc
          /\ ret'.value = None
          /\ "cache.setex" \notin ret'.calls
          /\ cache' = cache]_vars

\* the reranker raised in a search with use_cache=true that had missed
C8_Witness ==
    /\ ret.op = "search" /\ ret.raised_by = "rerank"
    /\ ret.use_cache /\ ret.cache_read = "miss"
    /\ ret.exc

\* C29: a search with use_cache = False neither reads nor writes the
\* cache: the cache is after the call what it was before, a response
\* returned has cached = False, and the embedding and the two storage
\* searches are executed (all three when the call returns; when a
\* collaborator raises, those up to it).
C29_BypassLeavesCacheAlone ==
    [][(ret'.op = "search" /\ ~ret'.use_cache) =>
          /\ cache' = cache
          /\ ret'.calls \cap {"cache.get", "cache.setex"} = {}
          /\ "embed_query" \in ret'.calls
          /\ ret'.raised_by \notin {"embed_query"} => "vector_search" \in ret'.calls
          /\ ret'.raised_by \notin {"embed_query", "vector_search"}
                => "keyword_search" \in ret'.calls
          /\ ~ret'.exc =>
                /\ ret'.value.cached = FALSE
                /\ {"embed_query", "vector_search", "keyword_search"} \subseteq ret'.calls]_vars

\* a search with use_cache = False has returned results while a live entry
\* for its query, holding other results, is in the cache
C29_Witness ==
    /\ ret.op = "search" /\ ~ret.use_cache /\ ~ret.exc
    /\ _cache_key(ret.query) \in DOMAIN cache
    /\ ret.query \in DOMAIN stored
    /\ stored[ret.query].age < cache_ttl_seconds
    /\ ret.value.results # <<>>
    /\ ret.value.results # stored[ret.query].response.results

(***************************************************************************)
(* Storage alone: ingestions and deletions of up to MaxStoreDocs documents.*)
(***************************************************************************)

NextStore == IngestAny(MaxStoreDocs) \/ DeleteAny \/ Return

SpecStore == Init /\ [][NextStore]_vars

\* the stored chunks of document d
ChunksOf(d) == {c \in db.chunks : c.document_id = d}

\* C1: ingestion is all-or-nothing per document.  After an ingestion that
\* raised, storage holds neither the document it registered nor a chunk of
\* it; and every stored document comes from an ingestion that returned.
C1_AllOrNothing ==
    /\ db.documents \subseteq completed
    /\ (ret.op = "ingest" /\ ret.exc) =>
           (ret.doc_id \notin db.documents /\ ChunksOf(ret.doc_id) = {})

\* C2: for every document in storage, the chunk_index values of its stored
\* chunks are exactly 0..n-1, n the number of its chunks: no gap, and no
\* (document_id, chunk_index) pair twice.
C2_ChunkIndexContiguous ==
    \A d \in db.documents :
        {c.chunk_index : c \in ChunksOf(d)} = 0..(Cardinality(ChunksOf(d)) - 1)

\* a document of several chunks is stored, and an ingestion has just failed
\* in the middle of its batch insert
C2_Witness ==
    /\ \E d \in db.documents : Cardinality(ChunksOf(d)) >= 2
    /\ ret.op = "ingest" /\ ret.exc /\ ret.fault = "insert_chunks"
    /\ ret.fail_at >= 2

\* C30: every connection that get_conn acquires is released exactly once,
\* whether the enclosed operation returns or raises: after every storage
\* operation no connection is held.  The operation's writes are committed
\* when it returns and rolled back when it raises: a failed insert_document
\* or delete_document leaves the tables as they were, a failed insert_chunks
\* leaves no chunk row, also when executes before the failing one went
\* through.
C30_ReleasedAndRolledBack ==
    [][/\ db'.held = 0
       /\ (ret'.op = "delete" /\ ret'.exc) => db' = db
       /\ (ret'.op = "ingest" /\ ret'.exc /\ ret'.fault = "insert_document") => db' = db
       /\ (ret'.op = "ingest" /\ ret'.exc /\ ret'.fault = "insert_chunks") =>
             db'.chunks = db.chunks
       /\ (ret'.op = "ingest" /\ ~ret'.exc) =>
             /\ ret'.value.document_id \in db'.documents
             /\ Cardinality(db'.chunks \ db.chunks) = ret'.value.chunk_count
       /\ (ret'.op = "delete" /\ ~ret'.exc) => ret'.doc_id \notin db'.documents]_vars

\* insert_chunks has raised at its second execute, after the first one
\* inserted a row: no chunk of the document is stored, no connection held
C30_Witness ==
    /\ ret.op = "ingest" /\ ret.exc /\ ret.fault = "insert_chunks" /\ ret.fail_at = 2
    /\ ret.doc_id \in db.documents
    /\ ChunksOf(ret.doc_id) = {}
    /\ db.held = 0

\* the error values that name the stage of the pipeline that failed
StageErrors == {[kind |-> "pipeline", stage |-> st] : st \in {"storage", "embedding"}}

\* C22 as stated: a failed ingest_document hands its caller an error value
\* that names the failing stage, storage or embedding, and is not the
\* collaborator's own exception.
C22_StageReported ==
    (ret.op = "ingest" /\ ret.exc) => ret.raised \in StageErrors

\* C20: a delete_document(d) that returns, returns true exactly when d was
\* in storage before the call; after it neither d nor a chunk of d is in
\* storage, every other document and chunk is as before, and a delete of
\* a document deleted earlier returns false.
C20_DeleteExact ==
    [][(ret'.op = "delete" /\ ~ret'.exc) =>
          /\ ret'.value = (ret'.doc_id \in db.documents)
          /\ db'.documents = db.documents \ {ret'.doc_id}
          /\ db'.chunks = db.chunks \ ChunksOf(ret'.doc_id)
          /\ ret'.doc_id \in completed \ db.documents => ret'.value = FALSE]_vars

\* a document ingested and deleted earlier has been deleted again, with
\* false returned, while another document and its chunks are in storage
C20_Witness ==
    /\ ret.op = "delete" /\ ~ret.exc
    /\ ret.doc_id \in completed
    /\ ret.value = FALSE
    /\ \E d \in db.documents : ChunksOf(d) # {}

(***************************************************************************)
(* _reciprocal_rank_fusion alone: the two result lists are drawn from the  *)
(* lists of at most MaxRrfLen rows over MaxRrfIds chunks.  A result list   *)
(* holds a chunk once: its rows are distinct rows of the chunks table.     *)
(***************************************************************************)

MaxRrfIds == 3
MaxRrfLen == 3

RrfLists(signal) ==
    {[i \in 1..Len(r) |-> [chunk_id |-> r[i], document_id |-> 1, signal |-> signal]] :
        r \in {q \in UNION {[1..m -> 1..MaxRrfIds] : m \in 0..MaxRrfLen} : Injective(q)}}

\* the weights of the repository, and equal weights
RrfSettings ==
    {Settings(vector_weight, keyword_weight, retrieval_top_k),
     Settings(vector_weight, vector_weight, retrieval_top_k)}

InitRRF ==
    /\ db = EmptyDb
    /\ cache = <<>>
    /\ ret = [op |-> "none"]
    /\ completed = {}
    /\ stored = <<>>
    /\ inflight = <<>>
    /\ input \in [vector_results : RrfLists("vector"),
                  keyword_results : RrfLists("keyword"),
                  settings : RrfSettings]

Fuse ==
    /\ Idle
    /\ ret' = [op |-> "fuse",
               value |-> _reciprocal_rank_fusion(input.vector_results,
                                                 input.keyword_results, rrf_k)]
    /\ UNCHANGED <<db, cache, completed, stored, input, inflight>>

NextRRF == Fuse \/ Return

SpecRRF == InitRRF /\ [][NextRRF]_vars

IdsOf(list) == {list[i].chunk_id : i \in 1..Len(list)}

\* C9: the chunk ids of the fused output are exactly the union of the chunk
\* ids of the two input lists, each once: the output is as long as the
\* number of distinct chunk ids of both inputs.
C9_RrfTotality ==
    ret.op = "fuse" =>
        /\ IdsOf(ret.value) = IdsOf(input.vector_results) \cup IdsOf(input.keyword_results)
        /\ Len(ret.value) =
               Cardinality(IdsOf(input.vector_results) \cup IdsOf(input.keyword_results))

\* the lists share a chunk, each has a chunk the other lacks, and together
\* they hold more chunks than retrieval_top_k
C9_Witness ==
    /\ ret.op = "fuse"
    /\ IdsOf(input.vector_results) \cap IdsOf(input.keyword_results) # {}
    /\ IdsOf(input.vector_results) \ IdsOf(input.keyword_results) # {}
    /\ IdsOf(input.keyword_results) \ IdsOf(input.vector_results) # {}
    /\ Len(ret.value) = MaxRrfIds

\* the 0-based rank of chunk cid in a list that holds it
RankOf(list, cid) == (CHOOSE i \in 1..Len(list) : list[i].chunk_id = cid) - 1

\* weight / (k + r + 1) for a list that holds cid, zero for one that does not
ShareOf(list, cid, weight) ==
    IF cid \in IdsOf(list)
    THEN [n |-> weight, d |-> rrf_k + RankOf(list, cid) + 1]
    ELSE [n |-> 0, d |-> 1]

\* the sum of the claim, as the rational n / (WeightScale * d)
ExactSum(cid) ==
    [n |-> ShareOf(input.vector_results, cid, settings.vector_weight).n
              * ShareOf(input.keyword_results, cid, settings.keyword_weight).d
           + ShareOf(input.keyword_results, cid, settings.keyword_weight).n
              * ShareOf(input.vector_results, cid, settings.vector_weight).d,
     d |-> ShareOf(input.vector_results, cid, settings.vector_weight).d
              * ShareOf(input.keyword_results, cid, settings.keyword_weight).d]

Abs(x) == IF x < 0 THEN -x ELSE x

\* C10 as stated: the rrf_score of every candidate of the output (kept in
\* units of 10^-6) equals the sum of its weight / (k + r + 1) exactly.
C10_ScoreIsExactSum ==
    ret.op = "fuse" =>
        \A i \in 1..Len(ret.value) :
            ret.value[i].rrf_score * WeightScale * ExactSum(ret.value[i].chunk_id).d
                = ExactSum(ret.value[i].chunk_id).n * MicroPerUnit

\* C10, amended: the rrf_score of every candidate of the output is the sum
\* of its weight / (k + r + 1) rounded to six decimal places: a multiple of
\* 10^-6 at most half of 10^-6 away from the sum.
C10_ScoreIsRoundedSum ==
    ret.op = "fuse" =>
        \A i \in 1..Len(ret.value) :
            2 * Abs(ret.value[i].rrf_score * WeightScale * ExactSum(ret.value[i].chunk_id).d
                    - ExactSum(ret.value[i].chunk_id).n * MicroPerUnit)
                <= WeightScale * ExactSum(ret.value[i].chunk_id).d

\* a chunk of both lists and a chunk of one list only have been scored
C10_Witness ==
    /\ ret.op = "fuse"
    /\ \E i, j \in 1..Len(ret.value) :
          /\ ret.value[i].chunk_id \in
                 IdsOf(input.vector_results) \cap IdsOf(input.keyword_results)
          /\ ret.value[j].chunk_id \in
                 IdsOf(input.keyword_results) \ IdsOf(input.vector_results)
          /\ RankOf(input.keyword_results, ret.value[j].chunk_id) > 0

\* the chunk ids in the order the two passes first meet them: the vector
\* list, then the chunks of the keyword list that the vector list lacks
KeywordOnly(row) == row.chunk_id \notin IdsOf(input.vector_results)

FirstSeen == input.vector_results \o SelectSeq(input.keyword_results, KeywordOnly)

\* ExactSum(a) > ExactSum(b)
SumGT(a, b) == ExactSum(a).n * ExactSum(b).d > ExactSum(b).n * ExactSum(a).d

\* C11: the fused output is in descending order of the total score (the sum
\* before rounding), and of two candidates with the same total the one met
\* first in the inputs (vector list in order, then the keyword-only
\* candidates in order) comes first.
C11_SortedStable ==
    ret.op = "fuse" =>
        \A i, j \in 1..Len(ret.value) :
            i < j =>
                /\ ~SumGT(ret.value[j].chunk_id, ret.value[i].chunk_id)
                /\ ~SumGT(ret.value[i].chunk_id, ret.value[j].chunk_id) =>
                       RankOf(FirstSeen, ret.value[i].chunk_id)
                           < RankOf(FirstSeen, ret.value[j].chunk_id)

\* the output holds two candidates with the same total, one of the vector
\* list only and one of the keyword list only, and a candidate with a
\* greater total
C11_Witness ==
    /\ ret.op = "fuse"
    /\ \E i, j, h \in 1..Len(ret.value) :
          /\ ret.value[i].chunk_id \in
                 IdsOf(input.vector_results) \ IdsOf(input.keyword_results)
          /\ ret.value[j].chunk_id \in
                 IdsOf(input.keyword_results) \ IdsOf(input.vector_results)
          /\ ~SumGT(ret.value[i].chunk_id, ret.value[j].chunk_id)
          /\ ~SumGT(ret.value[j].chunk_id, ret.value[i].chunk_id)
          /\ SumGT(ret.value[h].chunk_id, ret.value[i].chunk_id)

\* the rrf_score the output gives chunk cid
FusedScore(cid) ==
    ret.value[CHOOSE i \in 1..Len(ret.value) : ret.value[i].chunk_id = cid].rrf_score

\* the 0-based rank of a chunk held by exactly one list, in that list
SingleRank(cid) ==
    IF cid \in IdsOf(input.vector_results)
    THEN RankOf(input.vector_results, cid)
    ELSE RankOf(input.keyword_results, cid)

\* C12: under equal vector and keyword weights, a candidate A of both lists
\* has a fused score greater than or equal to that of every candidate B of
\* one list only whose rank there is equal to or worse than A's rank in one
\* of the two lists.
C12_Monotone ==
    (ret.op = "fuse" /\ settings.vector_weight = settings.keyword_weight) =>
        \A a \in IdsOf(input.vector_results) \cap IdsOf(input.keyword_results) :
            \A b \in (IdsOf(input.vector_results) \cup IdsOf(input.keyword_results))
                        \ (IdsOf(input.vector_results) \cap IdsOf(input.keyword_results)) :
                (\/ SingleRank(b) >= RankOf(input.vector_results, a)
                 \/ SingleRank(b) >= RankOf(input.keyword_results, a))
                    => FusedScore(a) >= FusedScore(b)

\* equal weights; B, of the vector list only, ranks better there than A but
\* no better than A ranks in the keyword list
C12_Witness ==
    /\ ret.op = "fuse"
    /\ settings.vector_weight = settings.keyword_weight
    /\ \E a \in IdsOf(input.vector_results) \cap IdsOf(input.keyword_results) :
          \E b \in IdsOf(input.vector_results) \ IdsOf(input.keyword_results) :
              /\ RankOf(input.vector_results, b) < RankOf(input.vector_results, a)
              /\ RankOf(input.vector_results, b) >= RankOf(input.keyword_results, a)

(***************************************************************************)
(* The chunker alone: _split_text applied to texts of up to MaxWords       *)
(* words separated by a blank, a line break, a tab, ". " or a paragraph    *)
(* break, under every chunk_size of 1..MaxSize and overlap of 0..MaxOverlap*)
(***************************************************************************)

MaxWords == 5
MaxSize == 3
MaxOverlap == 3

Letters == <<"a", "b", "c", "d", "e", "f", "g", "h">>

Gaps == { <<" ">>, <<"\n">>, <<"\t">>, <<".", " ">>, <<"\n", "\n">> }

\* the words i..n, each after the first preceded by its gap
RECURSIVE WordsFrom(_, _, _)
WordsFrom(i, n, gaps) ==
    IF i > n THEN <<>>
    ELSE (IF i > 1 THEN gaps[i - 1] ELSE <<>>)
         \o <<Letters[((i - 1) % Len(Letters)) + 1]>>
         \o WordsFrom(i + 1, n, gaps)

SplitTexts ==
    UNION {{pad \o WordsFrom(1, n, gaps) :
                pad \in {<<>>, <<" ">>}, gaps \in [1..(n - 1) -> Gaps]} :
           n \in 0..MaxWords}

InitSplit ==
    /\ db = EmptyDb
    /\ cache = <<>>
    /\ ret = [op |-> "none"]
    /\ completed = {}
    /\ stored = <<>>
    /\ inflight = <<>>
    /\ input \in [text : SplitTexts, chunk_size : 1..MaxSize, overlap : 0..MaxOverlap,
                  settings : {Settings(vector_weight, keyword_weight, retrieval_top_k)}]

Split ==
    /\ Idle
    /\ \E r \in {_split_text(input.text, input.chunk_size, input.overlap,
                              chunk_separators)} :
          ret' = [op |-> "split", exc |-> r.exc, value |-> r.chunks,
                  segments |-> r.segments, seeds |-> r.seeds]
    /\ UNCHANGED <<db, cache, completed, stored, input, inflight>>

NextSplit == Split \/ Return

SpecSplit == InitSplit /\ [][NextSplit]_vars

\* len(chunk.split())
WordCount(chunk) == Len(split_words(chunk))

\* the parts the first splitting separator cuts the input into; none when
\* no separator splits it
InputParts ==
    IF FirstSplitting(input.text, chunk_separators, 1) = 0 THEN <<>>
    ELSE split_sep(input.text,
                   chunk_separators[FirstSplitting(input.text, chunk_separators, 1)])

\* the chunk is one part of the input that exceeds chunk_size by itself
OversizePart(chunk) ==
    \E i \in 1..Len(InputParts) :
        /\ strip(InputParts[i]) = chunk
        /\ WordCount(InputParts[i]) > input.chunk_size

\* C13: every chunk _split_text returns has at most chunk_size words,
\* unless it is a single part of the input that exceeds chunk_size by
\* itself.  Stated for the overlaps below chunk_size, the case of the
\* settings: there already it fails.
C13_SizeBound ==
    (ret.op = "split" /\ ~ret.exc /\ input.overlap < input.chunk_size) =>
        \A i \in 1..Len(ret.value) :
            \/ WordCount(ret.value[i]) <= input.chunk_size
            \/ OversizePart(ret.value[i])

\* the words of the chunks, one chunk after the other
RECURSIVE ChunkWords(_)
ChunkWords(chunks) ==
    IF chunks = <<>> THEN <<>>
    ELSE split_words(Head(chunks)) \o ChunkWords(Tail(chunks))

\* every element of small occurs in big, in the order of small
RECURSIVE IsSubsequence(_, _)
IsSubsequence(small, big) ==
    IF small = <<>> THEN TRUE
    ELSE IF big = <<>> THEN FALSE
    ELSE IF Head(small) = Head(big) THEN IsSubsequence(Tail(small), Tail(big))
    ELSE IsSubsequence(small, Tail(big))

\* C14: the words of the chunks _split_text returns, taken in order, hold
\* every whitespace-delimited word of the input in the original order
\* (whatever is repeated by the overlap left aside): no word of the input
\* is absent from the output.
C14_Coverage ==
    (ret.op = "split" /\ ~ret.exc) =>
        IsSubsequence(split_words(input.text), ChunkWords(ret.value))

\* the call takes the word-window fallback: more than chunk_size words and
\* no separator that splits the text
InFallback ==
    /\ WordCount(input.text) > input.chunk_size
    /\ FirstSplitting(input.text, chunk_separators, 1) = 0

\* C15: in the word-window fallback _split_text returns normally, for every
\* overlap (overlap >= chunk_size included), a non-empty sequence of
\* windows of at most chunk_size words that together hold every word of
\* the input.
C15_FallbackProgress ==
    (ret.op = "split" /\ InFallback) =>
        /\ ~ret.exc
        /\ ret.value # <<>>
        /\ \A i \in 1..Len(ret.value) : WordCount(ret.value[i]) <= input.chunk_size
        /\ IsSubsequence(split_words(input.text), ChunkWords(ret.value))

\* plain prose: words and sentences on one line, no line or paragraph
\* break and no tab
IsProse(text) == \A i \in 1..Len(text) : text[i] \notin {"\n", "\t"}

NotPeriod(c) == c # "."

\* the words of a chunk, the period a sentence separator leaves on a word
\* left aside
PlainWords(chunk) ==
    [i \in 1..WordCount(chunk) |-> SelectSeq(split_words(chunk)[i], NotPeriod)]

\* a non-empty suffix of the words of a is a prefix of the words of b
SharesRun(a, b) ==
    \E k \in 1..Min(Len(a), Len(b)) :
        SubSeq(a, Len(a) - k + 1, Len(a)) = SubSeq(b, 1, k)

\* C18: plain prose without paragraph break of more than chunk_size words,
\* split with 0 < overlap < chunk_size, yields more than one chunk, each
\* of at most chunk_size words, and every two consecutive chunks share a
\* non-empty run of words: a suffix of the earlier is a prefix of the later.
\* Stated for the prose whose sentences have at most chunk_size - overlap
\* words each: there already it fails.
C18_ProseChunksOverlap ==
    (/\ ret.op = "split" /\ ~ret.exc
     /\ IsProse(input.text)
     /\ WordCount(input.text) > input.chunk_size + 1
     /\ 0 < input.overlap /\ input.overlap < input.chunk_size
     /\ \A i \in 1..Len(InputParts) :
            WordCount(InputParts[i]) <= input.chunk_size - input.overlap) =>
        /\ Len(ret.value) > 1
        /\ \A i \in 1..Len(ret.value) : WordCount(ret.value[i]) <= input.chunk_size
        /\ \A i \in 1..(Len(ret.value) - 1) :
               SharesRun(PlainWords(ret.value[i]), PlainWords(ret.value[i + 1]))

\* the words of a list of parts, counted as the loop counts them
RECURSIVE PartWords(_)
PartWords(parts) ==
    IF parts = <<>> THEN 0 ELSE WordCount(Head(parts)) + PartWords(Tail(parts))

\* the last n parts of a list
LastParts(parts, n) == SubSeq(parts, Len(parts) - n + 1, Len(parts))

\* a run of consecutive parts of the input
RunOfInput(segment) ==
    \E a \in 1..Len(InputParts) :
        /\ a + Len(segment) - 1 <= Len(InputParts)
        /\ segment = SubSeq(InputParts, a, a + Len(segment) - 1)

\* C26: in the separator path, when a segment is closed the next one is
\* seeded with a suffix of the parts just closed, whole and in their order,
\* of at most overlap words, the longest there is; no part is ever split:
\* every segment is a run of consecutive parts of the input.
C26_SeedIsLongestSuffix ==
    (ret.op = "split" /\ ~ret.exc /\ ret.segments # <<>>) =>
        /\ Len(ret.segments) = Len(ret.seeds) + 1
        /\ \A k \in 1..Len(ret.segments) : RunOfInput(ret.segments[k])
        /\ \A k \in 1..Len(ret.seeds) :
              /\ Len(ret.seeds[k]) <= Len(ret.segments[k])
              /\ ret.seeds[k] = LastParts(ret.segments[k], Len(ret.seeds[k]))
              /\ PartWords(ret.seeds[k]) <= input.overlap
              /\ \/ Len(ret.seeds[k]) = Len(ret.segments[k])
                 \/ PartWords(LastParts(ret.segments[k], Len(ret.seeds[k]) + 1))
                       > input.overlap
              /\ Len(ret.segments[k + 1]) > Len(ret.seeds[k])
              /\ SubSeq(ret.segments[k + 1], 1, Len(ret.seeds[k])) = ret.seeds[k]

\* a segment of three parts was closed and its last two parts, not the
\* three of them, seed the next one
C26_Witness ==
    /\ ret.op = "split" /\ ~ret.exc
    /\ \E k \in 1..Len(ret.seeds) :
          /\ Len(ret.segments[k]) = 3 /\ Len(ret.seeds[k]) = 2
          /\ PartWords(ret.segments[k]) > input.overlap

(***************************************************************************)
(* ingest_document alone: the method called directly, as a library call    *)
(* (no entry point of the repository validates in between), on one         *)
(* document whose content is drawn from the texts of the chunker's         *)
(* specification, the blank ones included, under the settings of the       *)
(* model.                                                                  *)
(***************************************************************************)

InitIngest ==
    /\ db = EmptyDb
    /\ cache = <<>>
    /\ ret = [op |-> "none"]
    /\ completed = {}
    /\ stored = <<>>
    /\ inflight = <<>>
    /\ input \in [text : SplitTexts,
                  settings : {Settings(vector_weight, keyword_weight, retrieval_top_k)}]

\* ingest_document(title, content = the text drawn), healthy or with one
\* collaborator raising
IngestInput ==
    /\ db.doc_seq <= MaxDocs
    /\ \/ \E fault \in {"none", "insert_document", "embed_texts"} :
              Ingest(input.text, fault, 0)
       \/ \E fail_at \in 1..Len(_split_text(input.text, chunk_size, chunk_overlap,
                                             chunk_separators).chunks) :
              Ingest(input.text, "insert_chunks", fail_at)

NextIngest == IngestInput \/ Return

SpecIngest == InitIngest /\ [][NextIngest]_vars

\* C16: an ingestion that returns, of a content that is not blank, returns
\* chunk_count >= 1; and when the content has at most chunk_size words it
\* returns chunk_count = 1 and stores exactly one chunk of the document,
\* with chunk_index 0.
C16_SmallDocumentOneChunk ==
    (ret.op = "ingest" /\ ~ret.exc /\ strip(ret.content) # <<>>) =>
        /\ ret.value.chunk_count >= 1
        /\ WordCount(ret.content) <= chunk_size =>
               /\ ret.value.chunk_count = 1
               /\ Cardinality(ChunksOf(ret.value.document_id)) = 1
               /\ \A c \in ChunksOf(ret.value.document_id) : c.chunk_index = 0

\* a content of exactly chunk_size words, with a separator inside and a
\* blank in front, has been ingested
C16_Witness ==
    /\ ret.op = "ingest" /\ ~ret.exc
    /\ WordCount(ret.content) = chunk_size
    /\ Head(ret.content) = " "
    /\ FirstSplitting(ret.content, chunk_separators, 1) \in {1, 2, 3}
    /\ Cardinality(ChunksOf(ret.value.document_id)) = 1

\* C17: an ingestion of an empty or whitespace-only content whose
\* insert_document did not raise does not raise: the document is
\* registered, the call returns chunk_count = 0, and neither the embedding
\* service nor insert_chunks is called; no chunk is stored.
C17_BlankContentReturnsZero ==
    (ret.op = "ingest" /\ strip(ret.content) = <<>> /\ ret.fault # "insert_document") =>
        /\ ~ret.exc
        /\ ret.value.chunk_count = 0
        /\ ret.value.document_id \in db.documents
        /\ ret.calls = {"insert_document"}
        /\ db.chunks = {}

\* a whitespace-only content has been ingested while the embedding service
\* was down
C17_Witness ==
    /\ ret.op = "ingest"
    /\ ret.content = <<" ">>
    /\ ret.fault = "embed_texts"
    /\ ~ret.exc
    /\ ret.value.chunk_count = 0

(***************************************************************************)
(* search over a storage of seven chunks, the reranker and the cache left  *)
(* out: the vector search answers with three chunks and the keyword search *)
(* with four others, in every order.                                       *)
(***************************************************************************)

ScenarioHits == [vector |-> 3, keyword |-> 4]

\* a document of fifteen words, seven chunks under the model's settings
FusedDoc == WordsFrom(1, 15, [i \in 1..14 |-> <<" ">>])

FusedDb == ingest_document(EmptyDb, FusedDoc, "none", 0).db

\* the rankings of n distinct chunks of the storage
RankingsOfLen(d, n) == {r \in Rankings(d, n) : Len(r) = n}

\* top_k: one, the default, the number of candidates and one more
FusedTopKs ==
    {1, rerank_top_k, ScenarioHits.vector + ScenarioHits.keyword,
     ScenarioHits.vector + ScenarioHits.keyword + 1}

InitFused ==
    /\ db = FusedDb
    /\ cache = <<>>
    /\ ret = [op |-> "none"]
    /\ completed = {1}
    /\ stored = <<>>
    /\ inflight = <<>>
    /\ \E vr \in RankingsOfLen(FusedDb, ScenarioHits.vector),
          kr \in RankingsOfLen(FusedDb, ScenarioHits.keyword) :
          /\ \A i \in 1..Len(vr), j \in 1..Len(kr) : vr[i] # kr[j]
          /\ input = [vector_results |-> RowsOf(FusedDb, vr, "vector"),
                      keyword_results |-> RowsOf(FusedDb, kr, "keyword"),
                      settings |-> Settings(vector_weight, keyword_weight,
                                            ScenarioHits.keyword)]

\* the chunk ids of a result list, in its order
RankingOf(rows) == [i \in 1..Len(rows) |-> rows[i].chunk_id]

\* search(query, top_k, use_cache=False, use_reranker=False), the two
\* searches answering with the rows drawn
SearchFused ==
    \E top_k \in FusedTopKs :
        Search("q1", top_k, FALSE, FALSE,
               Env(TRUE, TRUE, "none", RankingOf(input.vector_results),
                   RankingOf(input.keyword_results), NoScores))

NextFused == SearchFused \/ Return

SpecFused == InitFused /\ [][NextFused]_vars

\* the scenario: no reranker, three vector candidates, four keyword
\* candidates, no chunk in both, and the search has returned
FusedScenario ==
    /\ ret.op = "search" /\ ~ret.exc /\ ~ret.use_reranker
    /\ Len(input.vector_results) = 3
    /\ Len(input.keyword_results) = 4
    /\ IdsOf(input.vector_results) \cap IdsOf(input.keyword_results) = {}

\* the results are in descending order of rrf_score
DescendingRrf(results) ==
    \A i, j \in 1..Len(results) : i < j => results[i].rrf_score >= results[j].rrf_score

\* C19 as stated: in the scenario total_candidates = 7 and the results
\* returned are the 7 fused entries in descending order of RRF score.
C19_AllSevenReturned ==
    FusedScenario =>
        /\ ret.value.total_candidates = 7
        /\ Len(ret.value.results) = 7
        /\ IdsOf(ret.value.results)
               = IdsOf(input.vector_results) \cup IdsOf(input.keyword_results)
        /\ DescendingRrf(ret.value.results)

\* C19, amended: in the scenario total_candidates = 7 and the results
\* returned are the first top_k of the 7 fused entries (all 7 when
\* top_k >= 7) in descending order of RRF score: distinct candidates of
\* the two lists, none left out whose total is greater than that of one
\* returned.
C19_TopKOfSevenReturned ==
    FusedScenario =>
        /\ ret.value.total_candidates = 7
        /\ Len(ret.value.results) = Min(ret.top_k, 7)
        /\ Cardinality(IdsOf(ret.value.results)) = Len(ret.value.results)
        /\ IdsOf(ret.value.results)
               \subseteq IdsOf(input.vector_results) \cup IdsOf(input.keyword_results)
        /\ DescendingRrf(ret.value.results)
        /\ \A out \in (IdsOf(input.vector_results) \cup IdsOf(input.keyword_results))
                          \ IdsOf(ret.value.results) :
               \A in \in IdsOf(ret.value.results) : ~SumGT(out, in)

\* the scenario with the default top_k: 5 of the 7 candidates are returned
C19_Witness ==
    /\ FusedScenario
    /\ ret.top_k = rerank_top_k
    /\ Len(ret.value.results) = 5
    /\ ret.value.total_candidates = 7

(***************************************************************************)
(* The cache alone: _set_cache and _check_cache called directly, with      *)
(* responses of zero, one and two results, and the clock.                  *)
(***************************************************************************)

CacheCandidates ==
    << [chunk_id |-> 2, document_id |-> 1, signal |-> "keyword",
        rrf_score |-> 4839, rerank_score |-> 1],
       [chunk_id |-> 1, document_id |-> 1, signal |-> "vector", rrf_score |-> 11475] >>

CacheResponses(query) ==
    {[query |-> query, results |-> SubSeq(CacheCandidates, 1, n),
      total_candidates |-> n, cached |-> FALSE] : n \in 0..Len(CacheCandidates)}

\* _set_cache(query, result)
Put(query, result, up) ==
    /\ Idle
    /\ cache' = _set_cache(cache, query, result, up).cache
    /\ ret' = [op |-> "put", query |-> query, up |-> up,
               exc |-> _set_cache(cache, query, result, up).exc]
    /\ stored' = IF up THEN (query :> [response |-> result, age |-> 0]) @@ stored
                 ELSE stored
    /\ UNCHANGED <<db, completed, input, inflight>>

\* _check_cache(query)
Get(query, up) ==
    /\ Idle
    /\ ret' = [op |-> "get", query |-> query, up |-> up,
               exc |-> _check_cache(cache, query, up).exc,
               hit |-> _check_cache(cache, query, up).hit,
               value |-> _check_cache(cache, query, up).value]
    /\ UNCHANGED <<db, cache, completed, stored, input, inflight>>

PutAny == \E query \in Queries, up \in BOOLEAN :
              \E result \in CacheResponses(query) : Put(query, result, up)

GetAny == \E query \in Queries, up \in BOOLEAN : Get(query, up)

NextCache == PutAny \/ GetAny \/ TickAny \/ Return

SpecCache == Init /\ [][NextCache]_vars

\* C5: _check_cache(q), the backend answering, returns the response last
\* stored under q by _set_cache if less than the time-to-live has passed
\* since, and nothing (None) if the time-to-live has passed or nothing was
\* stored under q.
C5_CacheRoundTrip ==
    (ret.op = "get" /\ ret.up) =>
        /\ ~ret.exc
        /\ IF ret.query \in DOMAIN stored /\ stored[ret.query].age < cache_ttl_seconds
           THEN ret.hit /\ ret.value = stored[ret.query].response
           ELSE ~ret.hit

\* a response of two results is read back half a time-to-live after it was
\* stored, while the entry of the other query has expired
C5_Witness ==
    /\ ret.op = "get" /\ ret.up /\ ret.hit
    /\ Len(ret.value.results) = 2
    /\ stored[ret.query].age > 0
    /\ \E q \in DOMAIN stored : stored[q].age = cache_ttl_seconds /\ DOMAIN cache # {}

(***************************************************************************)
(* Concurrent callers: the cache backend and the storage are shared.  A    *)
(* search(query, top_k, use_cache=True) is four steps: its cache read, its *)
(* vector search, its keyword search with the response, and its cache      *)
(* write.  An ingest_document is two steps, one for each of its            *)
(* transactions.  Between the steps of a call the other callers, the       *)
(* deletions and the clock can act.                                        *)
(***************************************************************************)

MaxCallers == 2
Callers == 1..MaxCallers

InitConc ==
    /\ db = EmptyDb
    /\ cache = <<>>
    /\ ret = [op |-> "none"]
    /\ completed = {}
    /\ stored = <<>>
    /\ input = [settings |-> Settings(vector_weight, keyword_weight, retrieval_top_k)]
    /\ inflight = [p \in Callers |-> [pc |-> "idle"]]

\* step 1 of search: a hit returns at once, a miss goes on to compute
BeginSearch(p, query, top_k) ==
    /\ inflight[p].pc = "idle"
    /\ inflight' = [inflight EXCEPT ![p] =
           IF _check_cache(cache, query, TRUE).hit
           THEN [pc |-> "idle"]
           ELSE [pc |-> "computing", query |-> query, top_k |-> top_k]]
    /\ UNCHANGED <<db, cache, ret, completed, stored, input>>

\* Here the storage answers a query by its contents alone, so that two
\* searches of the same storage for the same query fetch the same rows: the
\* chunks by ascending id are the order of the vector distance, the chunks
\* by descending id the order of the text score.
RECURSIVE Ascending(_)
Ascending(ids) ==
    IF ids = {} THEN <<>>
    ELSE <<CHOOSE i \in ids : \A j \in ids : i <= j>>
         \o Ascending(ids \ {CHOOSE i \in ids : \A j \in ids : i <= j})

RECURSIVE Descending(_)
Descending(ids) ==
    IF ids = {} THEN <<>>
    ELSE <<CHOOSE i \in ids : \A j \in ids : i >= j>>
         \o Descending(ids \ {CHOOSE i \in ids : \A j \in ids : i >= j})

\* steps 2 and 3a of search: the embedding, and vector_search in a
\* transaction of its own, on the storage as it is now
VectorSearch(p) ==
    /\ inflight[p].pc = "computing"
    /\ inflight' = [inflight EXCEPT ![p] =
           [pc |-> "vector_done", query |-> inflight[p].query,
            top_k |-> inflight[p].top_k,
            vector_results |->
                [exc |-> FALSE,
                 ret |-> vector_search(db, Ascending({c.id : c \in Joined(db)}),
                                       settings.retrieval_top_k, FALSE).ret]]]
    /\ UNCHANGED <<db, cache, ret, completed, stored, input>>

\* steps 3b to 6 of search: keyword_search in a second transaction, on the
\* storage as it is by now, then the fusion and the response
ComputeSearch(p) ==
    /\ inflight[p].pc = "vector_done"
    /\ inflight' = [inflight EXCEPT ![p] =
           [pc |-> "storing", query |-> inflight[p].query,
            response |-> search_retrieved(inflight[p].query, inflight[p].top_k, FALSE,
                             Env(TRUE, TRUE, "none", <<>>, <<>>, NoScores),
                             inflight[p].vector_results,
                             keyword_search(db, Descending({c.id : c \in Joined(db)}),
                                            settings.retrieval_top_k, FALSE)).ret]]
    /\ UNCHANGED <<db, cache, ret, completed, stored, input>>

\* step 7 of search and its return
StoreSearch(p) ==
    /\ inflight[p].pc = "storing"
    /\ cache' = search_store(cache, inflight[p].query, TRUE, inflight[p].response, TRUE).cache
    /\ inflight' = [inflight EXCEPT ![p] = [pc |-> "idle"]]
    /\ UNCHANGED <<db, ret, completed, stored, input>>

SearchStep ==
    \E p \in Callers :
        \/ \E query \in SearchQueries, top_k \in TopKs : BeginSearch(p, query, top_k)
        \/ VectorSearch(p)
        \/ ComputeSearch(p)
        \/ StoreSearch(p)

\* step 1 of ingest_document: insert_document, a transaction of its own.
\* The document is committed and the connection released before the
\* chunking and the embedding.
BeginIngest(p, content) ==
    /\ inflight[p].pc = "idle"
    /\ db.doc_seq <= MaxDocs
    /\ db' = insert_document(db, FALSE).db
    /\ inflight' = [inflight EXCEPT ![p] =
           [pc |-> "registered", content |-> content,
            doc_id |-> insert_document(db, FALSE).ret]]
    /\ UNCHANGED <<cache, ret, completed, stored, input>>

\* how FinishIngest ends: raw_chunks are the chunks of the content, r the
\* outcome of insert_chunks on the storage as it is by now
IngestDone(p, raw_chunks, r) ==
    /\ db' = IF raw_chunks = <<>> THEN db ELSE r.db
    /\ ret' = [op |-> "ingest", content |-> inflight[p].content, fault |-> "none",
               fail_at |-> 0,
               exc |-> raw_chunks # <<>> /\ r.exc,
               value |-> IF raw_chunks = <<>>
                         THEN [document_id |-> inflight[p].doc_id, chunk_count |-> 0]
                         ELSE IF r.exc THEN None
                         ELSE [document_id |-> inflight[p].doc_id, chunk_count |-> r.ret],
               calls |-> IF raw_chunks = <<>> THEN {"insert_document"}
                         ELSE {"insert_document", "embed_texts", "insert_chunks"},
               raised |-> ingest_raised(raw_chunks # <<>> /\ r.exc, "insert_chunks"),
               doc_id |-> inflight[p].doc_id]
    /\ completed' = IF raw_chunks # <<>> /\ r.exc THEN completed
                    ELSE completed \cup {inflight[p].doc_id}

\* steps 2 to 6 of ingest_document: chunking, embedding, and insert_chunks
\* in a second transaction, which raises (foreign key) when the document
\* was deleted in between
FinishIngest(p) ==
    /\ inflight[p].pc = "registered"
    /\ Idle
    /\ \E split \in {_split_text(inflight[p].content, chunk_size, chunk_overlap,
                                  chunk_separators)} :
          IngestDone(p, split.chunks,
                     insert_chunks(db, inflight[p].doc_id, chunk_records(split.chunks), 0))
    /\ inflight' = [inflight EXCEPT ![p] = [pc |-> "idle"]]
    /\ UNCHANGED <<cache, stored, input>>

IngestStep ==
    \E p \in Callers :
        \/ \E content \in Contents : BeginIngest(p, content)
        \/ FinishIngest(p)

\* ingestions and deletions that the storage carries out, in calls made one
\* after another
IngestHealthy == db.doc_seq <= MaxDocs /\ \E content \in Contents : Ingest(content, "none", 0)

\* delete_document is one transaction
DeleteHealthy == \E doc_id \in 1..MaxDocs : Delete(doc_id, FALSE)

NextConc == SearchStep \/ IngestStep \/ DeleteHealthy \/ TickAny \/ Return

SpecConc == InitConc /\ [][NextConc]_vars

\* C7 as stated: while the entry of a query is unexpired, its stored
\* response is never replaced by a different response.
C7_EntryImmutable ==
    [][\A key \in DOMAIN cache :
          key \in DOMAIN cache' => cache'[key].value = cache[key].value]_vars


(***************************************************************************)
(* Two queries against one storage: searches whose collaborators answer,   *)
(* with ingestions, deletions and the clock in between.  The calls are     *)
(* made one after another, each returning before the next begins (one      *)
(* server process, whose tools never yield inside a call).  The storage    *)
(* answers a query by its contents alone.                                  *)
(***************************************************************************)
SearchOf(query, top_k, use_cache) ==
    Search(query, top_k, use_cache, FALSE,
           Env(TRUE, TRUE, "none",
               Take(Ascending({c.id : c \in Joined(db)}), settings.retrieval_top_k),
               Take(Descending({c.id : c \in Joined(db)}), settings.retrieval_top_k),
               NoScores))

SearchEither ==
    \E query \in Queries, top_k \in TopKs, use_cache \in BOOLEAN :
        SearchOf(query, top_k, use_cache)

NextQueries == IngestHealthy \/ DeleteHealthy \/ SearchEither \/ TickAny \/ Return

SpecQueries == Init /\ [][NextQueries]_vars

\* C21: a search served from the cache is served a response that a search
\* for the same query string stored, never one stored for the other query,
\* and a search with use_cache = True for a query of which no live entry was
\* stored is a miss: it is computed and not marked as cached.
C21_NoCrossQueryHit ==
    (ret.op = "search" /\ ret.use_cache /\ ~ret.exc) =>
        /\ ret.value.cached =>
              /\ ret.query \in DOMAIN stored
              /\ ret.value.query = ret.query
              /\ ret.value = [stored[ret.query].response EXCEPT !.cached = TRUE]
        /\ ret.query \notin DOMAIN stored =>
              /\ ~ret.value.cached
              /\ ret.cache_read = "miss"
              /\ "embed_query" \in ret.calls

\* after a cached search for one query only, the search for the other one
\* has missed
C21_Witness ==
    /\ ret.op = "search" /\ ret.use_cache /\ ~ret.exc
    /\ ret.query \notin DOMAIN stored
    /\ \E q \in DOMAIN stored :
          /\ q # ret.query
          /\ stored[q].age < cache_ttl_seconds
          /\ _cache_key(q) \in DOMAIN cache
    /\ ~ret.value.cached


(***************************************************************************)
(* _rerank alone: any list of up to MaxRrfLen candidates in their prior    *)
(* order, any scores of the model for the pairs, any top_k; and searches   *)
(* of an empty and of a filled storage that ask for reranking.             *)
(***************************************************************************)

\* raw scores of the model: two of them are equal once rounded
RerankRawTies ==
    RerankRaw \cup {r + 8 : r \in {x \in RerankRaw : \A y \in RerankRaw : x >= y}}

RerankTopKs == 0..(MaxRrfLen + 1)

\* the storage: empty, or one document of one chunk
RerankDbs ==
    {EmptyDb,
     ingest_document(EmptyDb, CHOOSE content \in Contents :
                                  Len(split_words(content)) <= chunk_size,
                     "none", 0).db}

\* _rerank is given every input over the empty storage, the filled storage
\* is there for the searches
InitRerank ==
    /\ db \in RerankDbs
    /\ cache = <<>>
    /\ ret = [op |-> "none"]
    /\ completed = {}
    /\ stored = <<>>
    /\ inflight = <<>>
    /\ \E candidates \in RrfLists("vector"), top_k \in RerankTopKs, fault \in BOOLEAN :
          \E scores \in [1..Len(candidates) -> RerankRawTies] :
             /\ db # EmptyDb => (candidates = <<>> /\ top_k = 0 /\ ~fault)
             /\ input = [candidates |-> candidates, scores |-> scores, top_k |-> top_k,
                      fault |-> fault,
                      settings |-> Settings(vector_weight, keyword_weight, retrieval_top_k)]

Rerank ==
    /\ Idle
    /\ \E r \in {_rerank(input.candidates, input.top_k, input.scores, input.fault)} :
          ret' = [op |-> "rerank", exc |-> r.exc, value |-> r.ret, called |-> r.called]
    /\ UNCHANGED <<db, cache, completed, stored, input, inflight>>

\* search(query, top_k, use_cache=False, use_reranker): the reranker may be
\* out of order
SearchReranked ==
    \E top_k \in TopKs, use_reranker \in BOOLEAN, fault \in {"none", "rerank"} :
        Search("q1", top_k, FALSE, use_reranker,
               Env(TRUE, TRUE, fault,
                   Take(Ascending({c.id : c \in Joined(db)}), settings.retrieval_top_k),
                   Take(Descending({c.id : c \in Joined(db)}), settings.retrieval_top_k),
                   NoScores))

NextRerank == Rerank \/ SearchReranked \/ Return

SpecRerank == InitRerank /\ [][NextRerank]_vars

\* the place of a candidate in the list given to _rerank
PriorPos(c) ==
    CHOOSE i \in 1..Len(input.candidates) : input.candidates[i].chunk_id = c.chunk_id

\* the score of the i-th candidate of the list given to _rerank
GivenScore(i) == Round4(input.scores[i])

\* C23: _rerank on n >= 1 candidates returns exactly min(top_k, n) of them,
\* each with its rerank score, in descending order of that score, equal
\* scores in their prior order, and no candidate left out scores higher
\* than a returned one.
C23_RerankTopSorted ==
    (ret.op = "rerank" /\ ~ret.exc /\ Len(input.candidates) >= 1) =>
        /\ Len(ret.value) = Min(input.top_k, Len(input.candidates))
        /\ \A i \in 1..Len(ret.value) :
              /\ \E j \in 1..Len(input.candidates) :
                    ret.value[i] = WithRerankScore(input.candidates[j], input.scores[j])
              /\ ret.value[i].rerank_score = GivenScore(PriorPos(ret.value[i]))
        /\ \A i, j \in 1..Len(ret.value) :
              i < j =>
                 /\ ret.value[i].rerank_score >= ret.value[j].rerank_score
                 /\ ret.value[i].rerank_score = ret.value[j].rerank_score
                       => PriorPos(ret.value[i]) < PriorPos(ret.value[j])
        /\ \A i \in 1..Len(ret.value), j \in 1..Len(input.candidates) :
              (\A k \in 1..Len(ret.value) : PriorPos(ret.value[k]) # j)
                 => ret.value[i].rerank_score >= GivenScore(j)

\* three candidates, two returned: the first two returned tie after
\* rounding on different raw scores, the one left out scored lower
C23_Witness ==
    /\ ret.op = "rerank" /\ ~ret.exc
    /\ Len(input.candidates) = 3 /\ input.top_k = 2 /\ Len(ret.value) = 2
    /\ ret.value[1].rerank_score = ret.value[2].rerank_score
    /\ input.scores[PriorPos(ret.value[1])] # input.scores[PriorPos(ret.value[2])]
    /\ PriorPos(ret.value[1]) = 2
    /\ GivenScore(1) < ret.value[2].rerank_score


\* C24: the scoring model is never invoked on an empty candidate list:
\* _rerank on an empty list returns an empty list without invoking it, and
\* a search whose fused list is empty returns empty results without
\* touching the reranker, whatever state the reranker is in.
C24_NothingToScore ==
    /\ (ret.op = "rerank" /\ input.candidates = <<>>) =>
          ~ret.exc /\ ret.value = <<>> /\ ~ret.called
    /\ (ret.op = "rerank" /\ ret.called) => input.candidates # <<>>
    /\ (ret.op = "search" /\ Joined(db) = {}) =>
          /\ ~ret.exc
          /\ ret.value.total_candidates = 0
          /\ ret.value.results = <<>>
          /\ "rerank" \notin ret.calls

\* a search with use_reranker = True of an empty storage has returned
\* while the reranker is out of order
C24_Witness ==
    /\ ret.op = "search" /\ ret.use_reranker /\ Joined(db) = {}
    /\ ~ret.exc /\ ret.value.results = <<>>
    /\ {"vector_search", "keyword_search"} \subseteq ret.calls


(***************************************************************************)
(* search on a cache miss, with more fused candidates than the reranker    *)
(* is to be given: a storage of three chunks, retrieval_top_k = 2.         *)
(***************************************************************************)
LimitScenario == [retrieval_top_k |-> 2, words |-> 7, top_k |-> 4]

LimitDb ==
    ingest_document(EmptyDb,
                    WordsFrom(1, LimitScenario.words,
                              [i \in 1..(LimitScenario.words - 1) |-> <<" ">>]),
                    "none", 0).db

InitLimit ==
    /\ db = LimitDb
    /\ cache = <<>>
    /\ ret = [op |-> "none"]
    /\ completed = {1}
    /\ stored = <<>>
    /\ inflight = <<>>
    /\ \E vr \in NearestRankings(LimitDb, LimitScenario.retrieval_top_k),
          kr \in Rankings(LimitDb, LimitScenario.retrieval_top_k),
          scores \in [1..Cardinality(Joined(LimitDb)) -> RerankRawTies] :
          input = [vector_results |-> RowsOf(LimitDb, vr, "vector"),
                   keyword_results |-> RowsOf(LimitDb, kr, "keyword"),
                   scores |-> scores,
                   settings |-> Settings(vector_weight, keyword_weight,
                                         LimitScenario.retrieval_top_k)]

\* search(query, top_k, use_cache=False, use_reranker): the two searches
\* answer with the rows drawn, the model scores the i-th pair scores[i]
SearchLimited ==
    \E top_k \in 1..LimitScenario.top_k, use_reranker \in BOOLEAN :
        Search("q1", top_k, FALSE, use_reranker,
               Env(TRUE, TRUE, "none", RankingOf(input.vector_results),
                   RankingOf(input.keyword_results), input.scores))

NextLimit == SearchLimited \/ Return

SpecLimit == InitLimit /\ [][NextLimit]_vars

\* the fused list of the rows drawn
LimitFused ==
    _reciprocal_rank_fusion(input.vector_results, input.keyword_results, rrf_k)

\* the place of a result in the fused list (0: not there)
FusedPos(c) ==
    IF \E i \in 1..Len(LimitFused) : LimitFused[i].chunk_id = c.chunk_id
    THEN CHOOSE i \in 1..Len(LimitFused) : LimitFused[i].chunk_id = c.chunk_id
    ELSE 0

\* how many pairs the reranker is to be given
Broader == Min(settings.retrieval_top_k, Len(LimitFused))

\* the results are the best top_k of the first retrieval_top_k fused
\* entries, each scored as the pair at its place in the fused list
RerankedOfBroader(results, top_k) ==
    /\ Len(results) = Min(top_k, Broader)
    /\ \A i \in 1..Len(results) :
          /\ FusedPos(results[i]) \in 1..Broader
          /\ results[i] = WithRerankScore(LimitFused[FusedPos(results[i])],
                                          input.scores[FusedPos(results[i])])
    /\ \A i, j \in 1..Len(results) :
          i < j =>
             /\ results[i].rerank_score >= results[j].rerank_score
             /\ results[i].rerank_score = results[j].rerank_score
                   => FusedPos(results[i]) < FusedPos(results[j])
    /\ \A i \in 1..Len(results), j \in 1..Broader :
          (\A k \in 1..Len(results) : FusedPos(results[k]) # j)
             => results[i].rerank_score >= Round4(input.scores[j])

\* C25: in a search that misses the cache, with use_reranker = True the
\* reranker is given only the first retrieval_top_k entries of the fused
\* list and the results are its top top_k; with use_reranker = False the
\* results are the first top_k entries of the fused list, in fused order.
C25_RerankerInputBounded ==
    (ret.op = "search" /\ ~ret.exc /\ ~ret.value.cached) =>
        /\ ret.value.total_candidates = Len(LimitFused)
        /\ ret.use_reranker => RerankedOfBroader(ret.value.results, ret.top_k)
        /\ ~ret.use_reranker => ret.value.results = Take(LimitFused, ret.top_k)

\* three fused candidates, the third with the best score of the model, and
\* a reranked search for three results has returned the first two only
C25_Witness ==
    /\ ret.op = "search" /\ ~ret.exc /\ ret.use_reranker
    /\ Len(LimitFused) = 3 /\ ret.top_k = 3
    /\ input.scores[3] > input.scores[1] /\ input.scores[3] > input.scores[2]
    /\ Round4(input.scores[2]) > Round4(input.scores[1])
    /\ Len(ret.value.results) = 2
    /\ ret.value.results[1].chunk_id = LimitFused[2].chunk_id


\* C27 as stated: every search that returns, served from the cache or
\* computed, returns at most top_k results, whatever searches for the same
\* query came before.
C27_AtMostTopK ==
    (ret.op = "search" /\ ~ret.exc) => Len(ret.value.results) <= ret.top_k


\* C28 as stated: the results of every search that returns reference only
\* documents present in storage when the search is made, so that no search
\* after delete_document(d) has returned true lists a chunk of d.
C28_NoDeletedDocument ==
    (ret.op = "search" /\ ~ret.exc) =>
        \A i \in 1..Len(ret.value.results) :
            ret.value.results[i].document_id \in db.documents


====
